---- MODULE Spec2Model ----
(***************************************************************************)
(* Model of the VibeMap recommendation engine (backend/recommender.py,     *)
(* class SongRecommender) and of the start-up code that populates it       *)
(* (backend/api_server.py, init_recommender).                              *)
(*                                                                         *)
(* Units.  The audio features that live in [0,1] are kept in tenths        *)
(* (0.6 is 6); tempo is kept in BPM.  Every threshold of the rule tables   *)
(* is a multiple of 0.1, so the comparisons are exact.                     *)
(*                                                                         *)
(* Real numbers.  The scaled feature matrix holds irrational numbers       *)
(* (a division by a standard deviation).  An entry is kept exactly as      *)
(* num * sqrt(n / den) with integer num and den, so that dot products and  *)
(* squared distances of rows are exact rationals.  A cosine similarity s   *)
(* is kept as the exact rational sgn(s)*s^2, a Euclidean distance d as     *)
(* d^2: both maps are strictly increasing, so order, ties, and the bounds  *)
(* -1, 0 and 1 are those of the real values.                               *)
(***************************************************************************)
EXTENDS Integers, Sequences, FiniteSets, TLC

\* ------------------------------------------------------------------ bounds
\* Largest catalog (number of tracks) handed to the engine.
MaxCatalog == 3
\* Largest n_recommendations an engine is constructed with.
MaxN == 3
\* Largest n_neighbors build_knn_model is called with.
MaxK == 3
\* Largest n_songs passed to the filter-based query modes.
MaxSongs == 2

\* Largest n_clusters a clusterer is constructed with, the default aside.
MaxClusters == 3
\* Largest max_clusters find_optimal_clusters is called with directly.
MaxSearch == 3
\* Largest number of distinct k-means problems (data, k, seed) solved in a run.
MaxMemo == 2
\* Largest number of rows in a raw_songs table.
MaxRaw == 3
\* Largest number of runs of clean_data on one database.
MaxRuns == 2
\* Largest count parameter of a /api/recommendations/similar request.
MaxCount == 2

\* SongRecommender.__init__(n_recommendations=5)
DefaultN == 5
\* rec = SongRecommender(n_recommendations=50) of the API server
ServerN == 50

\* MoodClusterer.__init__(n_clusters=5, random_state=42)
DefaultNClusters == 5

DefaultRandomState == 42

\* A second seed (test_custom_params: random_state=7).
OtherRandomState == 7

\* find_optimal_clusters(X, max_clusters=10)
DefaultMaxClusters == 10

\* A missing value (NaN) in a raw column: below every value of the model.
NA == -1000

\* dist_vector[idx] = np.inf: larger than every squared distance of the model.
INF == 1000000

VARIABLES df, feature_matrix_scaled, knn_model, n_recommendations, call, ret,
          model_file, dataset, clusterers, outputs, kmeans_memo,
          raw_songs, cleaned_songs, cleaner, pipeline, requests, cluster_file

vars == <<df, feature_matrix_scaled, knn_model, n_recommendations, call, ret,
          model_file, dataset, clusterers, outputs, kmeans_memo,
          raw_songs, cleaned_songs, cleaner, pipeline, requests, cluster_file>>

\* The engine's own fields (everything but the record of the last call).
engine == <<df, feature_matrix_scaled, knn_model, n_recommendations>>

\* The clustering stage: the cleaned dataset it reads, the MoodClusterer
\* objects, what their last call returned, and the k-means problems solved.
clustering == <<dataset, clusterers, outputs, kmeans_memo>>

\* What lies outside the engine object: the bundle file on disk and the
\* clustering stage.
outside == <<model_file, dataset, clusterers, outputs, kmeans_memo>>

\* The pieces around the two engines: the two tables of the SQLite database,
\* the cleaner's last run, the master pipeline's run, the requests the API
\* server is handling, and the clusterer's bundle file.
surroundings == <<raw_songs, cleaned_songs, cleaner, pipeline, requests, cluster_file>>

\* ------------------------------------------------------------- arithmetic
Abs(x) == IF x < 0 THEN -x ELSE x

Min(a, b) == IF a <= b THEN a ELSE b

RECURSIVE Gcd(_, _)
Gcd(a, b) == IF b = 0 THEN a ELSE Gcd(b, a % b)

Lcm(a, b) == (a \div Gcd(a, b)) * b

RECURSIVE SumSeq(_)
SumSeq(s) == IF s = <<>> THEN 0 ELSE Head(s) + SumSeq(Tail(s))

\* The sequence s itself, as a tuple of evaluated entries: a sequence written
\* [i \in 1..n |-> e] is otherwise evaluated anew at every s[i].
AsTuple(s) == SubSeq(s, 1, Len(s))

RECURSIVE GcdSeq(_)
GcdSeq(s) == IF s = <<>> THEN 0 ELSE Gcd(Abs(Head(s)), GcdSeq(Tail(s)))

RECURSIVE LcmSeq(_)
LcmSeq(s) == IF s = <<>> THEN 1 ELSE Lcm(Head(s), LcmSeq(Tail(s)))

\* A slip in head: the last n elements (DataFrame.tail).
head_Tail(s, n) == SubSeq(s, Len(s) - (IF n <= Len(s) THEN n ELSE Len(s)) + 1, Len(s))

\* The first n elements of a sequence (n >= 0): DataFrame.head(n), a[:n].
head(s, n) == SubSeq(s, 1, Min(n, Len(s)))

Reverse(s) == [i \in 1..Len(s) |-> s[Len(s) + 1 - i]]

\* ------------------------------------------------------------ rule tables
MOOD_FILTERS ==
    [happy     |-> {[key |-> "valence", value |-> 6], [key |-> "energy", value |-> 5]},
     sad       |-> {[key |-> "valence_max", value |-> 4], [key |-> "energy_max", value |-> 4]},
     energetic |-> {[key |-> "energy", value |-> 7], [key |-> "danceability", value |-> 5]},
     calm      |-> {[key |-> "energy_max", value |-> 4], [key |-> "acousticness", value |-> 5]},
     dark      |-> {[key |-> "valence_max", value |-> 3], [key |-> "energy", value |-> 6]},
     romantic  |-> {[key |-> "valence", value |-> 5], [key |-> "acousticness", value |-> 4],
                    [key |-> "energy_max", value |-> 6]},
     angry     |-> {[key |-> "energy", value |-> 7], [key |-> "valence_max", value |-> 4]},
     party     |-> {[key |-> "danceability", value |-> 7], [key |-> "energy", value |-> 6],
                    [key |-> "valence", value |-> 5]}]

TEMPO_FILTERS ==
    [slow   |-> [tempo_max |-> 100],
     medium |-> [tempo_min |-> 100, tempo_max |-> 120],
     fast   |-> [tempo_min |-> 120]]

\* key.endswith("_max") and key.replace("_max", "") on the keys of MOOD_FILTERS.
EndsWithMax(key) == key \in {"valence_max", "energy_max"}

StripMax(key) == IF key = "valence_max" THEN "valence" ELSE "energy"

\* ------------------------------------------------------------------ values
\* No table read: df of an initialisation path before pd.read_csv or
\* pd.read_sql_query.
NoSource == [tracks |-> <<>>, columns |-> {}]

NoCall == [op |-> "none", mood |-> "-", tempo |-> "-", n_songs |-> 0,
           song_id |-> "-", method |-> "-", n_neighbors |-> 0, source |-> NoSource]

NoScore == [nan |-> FALSE, num |-> 0, den |-> 1]

\* What a call produced: rows (a DataFrame), a mask, nothing, or a raised error.
Returned(kind, rows, mask) ==
    [kind |-> kind, rows |-> rows, mask |-> mask, exc |-> "-", msg |-> "-", valid |-> {}]

Raised(exc, msg, valid) ==
    [kind |-> "error", rows |-> <<>>, mask |-> <<>>, exc |-> exc, msg |-> msg, valid |-> valid]

\* ------------------------------------------------------------- the catalog
\* Tracks the catalogs are drawn from.  Values sit on both sides of, and on,
\* the thresholds of the rule tables.
Track(v, e, d, t, a) ==
    [valence |-> v, energy |-> e, danceability |-> d, tempo |-> t, acousticness |-> a,
     instrumentalness |-> 1, liveness |-> 2, speechiness |-> 1, loudness |-> -8]

FilterPool ==
    {Track(6, 7, 7, 120, 1), Track(4, 4, 3, 100, 5), Track(3, 7, 4, 140, 1),
     Track(5, 6, 5, 90, 4),  Track(5, 5, 6, 110, 3), Track(7, 8, 8, 100, 1)}

\* Two tracks for the engine's life cycle, where every operation is modelled.
SmallPool == {Track(7, 7, 7, 120, 2), Track(3, 3, 3, 100, 6)}

\* Every feature takes at most two values here, which keeps the exact
\* arithmetic of the scaled matrix small.
SongPool ==
    {Track(7, 7, 7, 120, 2), Track(3, 3, 3, 100, 6), Track(3, 7, 3, 120, 2),
     Track(7, 3, 3, 100, 6)}

TrackIds == <<"t1", "t2", "t3", "t4", "t5", "t6", "t7", "t8", "t9", "t10">>

UnknownId == "fake_id_999"

CatalogsOver(pool) == UNION {[1..n -> pool] : n \in 1..MaxCatalog}

\* ------------------------------------------------- construction and loading
\* SongRecommender.__init__: every field empty but n_recommendations.
Unloaded == [loaded |-> FALSE, rows |-> <<>>]

NoMatrix == [set |-> FALSE, num |-> <<>>, den |-> <<>>]

NoKnn == [built |-> FALSE, n_neighbors |-> 0]

\* MODEL_DIR / "song_recommender.pkl" before any save_model.
NoFile == [saved |-> FALSE, knn_model |-> NoKnn, n_recommendations |-> 0]

SeqMin(s) == CHOOSE x \in {s[i] : i \in DOMAIN s} : \A i \in DOMAIN s : x <= s[i]

SeqMax(s) == CHOOSE x \in {s[i] : i \in DOMAIN s} : \A i \in DOMAIN s : x >= s[i]

\* (x - min) / (range if range != 0 else 1.0), kept as the fraction num/den.
MinMaxNormalized(x, column) ==
    LET range == SeqMax(column) - SeqMin(column)
    IN  [num |-> x - SeqMin(column), den |-> IF range # 0 THEN range ELSE 1]

\* The catalog as init_recommender stores it in rec.df: one row per track, in
\* catalog order (index 1..n), with the two normalized columns appended.
LoadedFrame(tracks) ==
    LET tempos == [i \in DOMAIN tracks |-> tracks[i].tempo]
        louds  == [i \in DOMAIN tracks |-> tracks[i].loudness]
    IN  [i \in DOMAIN tracks |->
            [track_id |-> TrackIds[i],
             valence |-> tracks[i].valence, energy |-> tracks[i].energy,
             danceability |-> tracks[i].danceability, tempo |-> tracks[i].tempo,
             acousticness |-> tracks[i].acousticness,
             instrumentalness |-> tracks[i].instrumentalness,
             liveness |-> tracks[i].liveness, speechiness |-> tracks[i].speechiness,
             loudness |-> tracks[i].loudness,
             tempo_normalized |-> MinMaxNormalized(tracks[i].tempo, tempos),
             loudness_normalized |-> MinMaxNormalized(tracks[i].loudness, louds)]]

\* rec.df[feature_cols].values.  Each column is kept in a unit of its own
\* (tenths; 1/range for the two normalized columns, whose denominator is the
\* same in every row); standardization does not depend on a column's unit.
FeatureMatrix(rows) ==
    [i \in DOMAIN rows |->
        <<rows[i].valence, rows[i].energy, rows[i].danceability,
          rows[i].tempo_normalized.num, rows[i].acousticness,
          rows[i].instrumentalness, rows[i].liveness, rows[i].speechiness,
          rows[i].loudness_normalized.num>>]

\* StandardScaler.fit_transform: per column (x - mean) / std, with std taken
\* as 1 for a constant column.  With n rows and column sum S, x - mean is
\* (n*x - S)/n and std is sqrt(sum (n*x - S)^2 / n) / n, so the entry is
\* (n*x - S) * sqrt(n / sum (n*x - S)^2).  The common factor g of a column's
\* n*x - S cancels: the entry is num * sqrt(n / den), num = (n*x - S)/g and
\* den the column's sum of num^2.
StandardScaler_fit_transform(X) ==
    LET n == Len(X)
        cols == 1..Len(X[1])
        S == AsTuple([j \in cols |-> SumSeq([k \in 1..n |-> X[k][j]])])
        u == AsTuple([i \in 1..n |-> AsTuple([j \in cols |-> n * X[i][j] - S[j]])])
        g == AsTuple([j \in cols |-> GcdSeq([i \in 1..n |-> u[i][j]])])
        num == AsTuple([i \in 1..n |->
                  AsTuple([j \in cols |-> IF g[j] = 0 THEN 0 ELSE u[i][j] \div g[j]])])
    IN  [set |-> TRUE,
         num |-> num,
         den |-> AsTuple([j \in cols |->
                    IF g[j] = 0 THEN 1 ELSE SumSeq([i \in 1..n |-> num[i][j] * num[i][j]])])]

\* ------------------------------------------------ clustering: the objects
\* The two MoodClusterer objects a run works with (c1 and c2 of
\* test_reproducible).
Instances == {1, 2}

\* cleaned_spotify_data.csv before the cleaning stage has written it.
NoDataset == [written |-> FALSE, tracks |-> <<>>]

\* self.kmeans = None
NoKMeans == [state |-> "none", n_clusters |-> 0, labels_ |-> <<>>]

\* self.cluster_labels of MoodClusterer.__init__
DefaultClusterLabels ==
    [id \in 0..4 |->
        CASE id = 0 -> "Energetic & Happy"
          [] id = 1 -> "Calm & Peaceful"
          [] id = 2 -> "Melancholic"
          [] id = 3 -> "Party & Dance"
          [] id = 4 -> "Intense & Dark"]

\* MODEL_DIR / "mood_clusterer.pkl" before any save_model.
NoClusterFile ==
    [saved |-> FALSE, kmeans |-> NoKMeans, scaler |-> [fitted |-> FALSE],
     feature_names |-> <<>>, n_clusters |-> 0, cluster_labels |-> DefaultClusterLabels]

\* A MoodClusterer that is not constructed yet.
NoClusterer ==
    [constructed |-> FALSE, n_clusters |-> 0, random_state |-> 0,
     scaler |-> [fitted |-> FALSE], kmeans |-> NoKMeans, feature_names |-> <<>>,
     cluster_labels |-> DefaultClusterLabels, analyzed |-> FALSE]

\* MoodClusterer.__init__(n_clusters, random_state)
MoodClusterer(n_clusters, random_state) ==
    [constructed |-> TRUE, n_clusters |-> n_clusters, random_state |-> random_state,
     scaler |-> [fitted |-> FALSE], kmeans |-> NoKMeans, feature_names |-> <<>>,
     cluster_labels |-> DefaultClusterLabels, analyzed |-> FALSE]

NoSearch ==
    [raised |-> FALSE, max_clusters |-> 0, K_range |-> {}, silhouette_scores |-> <<>>,
     davies_bouldin_scores |-> <<>>, optimal_k |-> 0]

\* What the last call on a clusterer produced.  op is the method called;
\* status "ok" or "error" (exc raised at the statement named in at); df,
\* auto_optimize, n_clusters and random_state are the call's argument and the
\* configuration it ran with; df_features and X_scaled what fit returned;
\* search what find_optimal_clusters computed; df_clustered the argument of
\* analyze_clusters.
NoOutput ==
    [op |-> "none", status |-> "none", exc |-> "-", at |-> "-", df |-> <<>>,
     auto_optimize |-> FALSE, n_clusters |-> 0, random_state |-> 0,
     df_features |-> <<>>, X_scaled |-> NoMatrix, search |-> NoSearch,
     df_clustered |-> <<>>, features |-> <<>>, label |-> "-"]

\* A table the database does not hold.
NoTable == [exists |-> FALSE, columns |-> {}, rows |-> <<>>]

\* The cleaner before its first run.
NoCleaner == [runs |-> 0, status |-> "none"]

\* The master pipeline before it is started.
NoRun ==
    [state |-> "idle", only |-> "-", skip_generate |-> FALSE, skip_eda |-> FALSE,
     present |-> {}, pipeline_scripts |-> <<>>, next |-> 0, started |-> <<>>,
     returncodes |-> <<>>, exc |-> "-", summary_written |-> FALSE, exit_status |-> -1]

\* The API server's request slots.
Slots == {1, 2}

\* A slot with no request in it.
NoRequest ==
    [pc |-> "idle", song_id |-> "-", method |-> "-", count |-> 0, old_n |-> 0,
     status |-> 0, n_rows |-> 0]

Init ==
    /\ df = Unloaded
    /\ feature_matrix_scaled = NoMatrix
    /\ knn_model = NoKnn
    /\ n_recommendations \in (1..MaxN) \cup {DefaultN}
    /\ call = NoCall
    /\ ret = Returned("none", <<>>, <<>>)
    /\ model_file = NoFile
    /\ dataset = NoDataset
    /\ clusterers = [i \in Instances |-> NoClusterer]
    /\ outputs = [i \in Instances |-> NoOutput]
    /\ kmeans_memo = {}
    /\ raw_songs = NoTable
    /\ cleaned_songs = NoTable
    /\ cleaner = NoCleaner
    /\ pipeline = NoRun
    /\ requests = [r \in Slots |-> NoRequest]
    /\ cluster_file = NoClusterFile

\* No call is in progress: the caller has taken the last result.
Idle == call.op = "none"

\* The caller takes the result of the call it made.
Consume ==
    /\ ~Idle
    /\ call' = NoCall
    /\ ret' = Returned("none", <<>>, <<>>)
    /\ UNCHANGED engine
    /\ UNCHANGED outside
    /\ UNCHANGED surroundings

\* rec.df = df.copy() ... reset_index, and the two normalized columns.
SetDf(tracks) ==
    /\ Idle
    /\ ~df.loaded
    /\ df' = [loaded |-> TRUE, rows |-> LoadedFrame(tracks)]
    /\ call' = [NoCall EXCEPT !.op = "set_df"]
    /\ ret' = Returned("none", <<>>, <<>>)
    /\ UNCHANGED <<feature_matrix_scaled, knn_model, n_recommendations>>
    /\ UNCHANGED outside
    /\ UNCHANGED surroundings

\* rec.feature_matrix_scaled = rec.scaler.fit_transform(rec.feature_matrix)
FitTransform ==
    /\ Idle
    /\ df.loaded
    /\ ~feature_matrix_scaled.set
    /\ feature_matrix_scaled' = StandardScaler_fit_transform(FeatureMatrix(df.rows))
    /\ call' = [NoCall EXCEPT !.op = "fit_transform"]
    /\ ret' = Returned("none", <<>>, <<>>)
    /\ UNCHANGED <<df, knn_model, n_recommendations>>
    /\ UNCHANGED outside
    /\ UNCHANGED surroundings

\* ------------------------------------------------------------ filter engine
MoodNames == DOMAIN MOOD_FILTERS

TempoNames == DOMAIN TEMPO_FILTERS

\* One threshold comparison of a mood rule on one row.
MoodComparison(row, t) ==
    IF EndsWithMax(t.key) THEN row[StripMax(t.key)] <= t.value
    ELSE row[t.key] >= t.value

\* A slip in _apply_mood_filter: the comparisons joined with |= instead of &=.
_apply_mood_filter_Or(mood) ==
    IF ~df.loaded THEN Raised("ValueError", "Dataset not loaded", {})
    ELSE IF mood \notin MoodNames THEN Raised("ValueError", "Unknown mood", MoodNames)
    ELSE Returned("mask", <<>>,
            [i \in DOMAIN df.rows |->
                \E t \in MOOD_FILTERS[mood] : MoodComparison(df.rows[i], t)])

\* _apply_mood_filter: the mask (one boolean per row), or the error raised.
_apply_mood_filter(mood) ==
    IF ~df.loaded THEN Raised("ValueError", "Dataset not loaded", {})
    ELSE IF mood \notin MoodNames THEN Raised("ValueError", "Unknown mood", MoodNames)
    ELSE Returned("mask", <<>>,
            [i \in DOMAIN df.rows |->
                \A t \in MOOD_FILTERS[mood] : MoodComparison(df.rows[i], t)])

\* A slip in _apply_tempo_filter: strict comparisons (> and <).
_apply_tempo_filter_Strict(tempo_type) ==
    IF ~df.loaded THEN Raised("ValueError", "Dataset not loaded", {})
    ELSE IF tempo_type \notin TempoNames
         THEN Raised("ValueError", "Unknown tempo type", TempoNames)
    ELSE LET thresholds == TEMPO_FILTERS[tempo_type]
         IN  Returned("mask", <<>>,
                [i \in DOMAIN df.rows |->
                    /\ ("tempo_min" \in DOMAIN thresholds
                            => df.rows[i].tempo > thresholds.tempo_min)
                    /\ ("tempo_max" \in DOMAIN thresholds
                            => df.rows[i].tempo < thresholds.tempo_max)])

\* _apply_tempo_filter: the mask, or the error raised.
_apply_tempo_filter(tempo_type) ==
    IF ~df.loaded THEN Raised("ValueError", "Dataset not loaded", {})
    ELSE IF tempo_type \notin TempoNames
         THEN Raised("ValueError", "Unknown tempo type", TempoNames)
    ELSE LET thresholds == TEMPO_FILTERS[tempo_type]
         IN  Returned("mask", <<>>,
                [i \in DOMAIN df.rows |->
                    /\ ("tempo_min" \in DOMAIN thresholds
                            => df.rows[i].tempo >= thresholds.tempo_min)
                    /\ ("tempo_max" \in DOMAIN thresholds
                            => df.rows[i].tempo <= thresholds.tempo_max)])

\* self.df[mask]: the rows whose mask is true, in catalog order.
Masked(mask) ==
    LET idx == SelectSeq([i \in DOMAIN df.rows |-> i], LAMBDA i : mask[i])
    IN  [k \in DOMAIN idx |->
            [idx |-> idx[k], track_id |-> df.rows[idx[k]].track_id,
             similarity_score |-> NoScore]]

recommend_by_mood(mood, n_songs) ==
    IF ~df.loaded THEN Raised("ValueError", "Dataset not loaded", {})
    ELSE LET mask == _apply_mood_filter(mood)
         IN  IF mask.kind = "error" THEN mask
             ELSE Returned("rows", head(Masked(mask.mask), n_songs), <<>>)

recommend_by_tempo(tempo_type, n_songs) ==
    IF ~df.loaded THEN Raised("ValueError", "Dataset not loaded", {})
    ELSE LET mask == _apply_tempo_filter(tempo_type)
         IN  IF mask.kind = "error" THEN mask
             ELSE Returned("rows", head(Masked(mask.mask), n_songs), <<>>)

\* A slip in recommend_by_mood_and_tempo: an unknown tempo name filters nothing
\* (TEMPO_FILTERS.get(tempo, {})) instead of raising.
recommend_by_mood_and_tempo_Lenient(mood, tempo, n_songs) ==
    IF ~df.loaded THEN Raised("ValueError", "Dataset not loaded", {})
    ELSE LET mood_mask == _apply_mood_filter(mood)
         IN  IF mood_mask.kind = "error" THEN mood_mask
             ELSE LET tempo_mask == _apply_tempo_filter(tempo)
                  IN  Returned("rows",
                         head(Masked([i \in DOMAIN df.rows |->
                                         /\ mood_mask.mask[i]
                                         /\ (tempo_mask.kind = "error" \/ tempo_mask.mask[i])]),
                              n_songs),
                         <<>>)

recommend_by_mood_and_tempo(mood, tempo, n_songs) ==
    IF ~df.loaded THEN Raised("ValueError", "Dataset not loaded", {})
    ELSE LET mood_mask == _apply_mood_filter(mood)
         IN  IF mood_mask.kind = "error" THEN mood_mask
             ELSE LET tempo_mask == _apply_tempo_filter(tempo)
                  IN  IF tempo_mask.kind = "error" THEN tempo_mask
                      ELSE Returned("rows",
                              head(Masked([i \in DOMAIN df.rows |->
                                              mood_mask.mask[i] /\ tempo_mask.mask[i]]),
                                   n_songs),
                              <<>>)

\* Names and counts the callers pass: every rule name and one unknown name.
MoodInputs == MoodNames \cup {"nonexistent"}

TempoInputs == TempoNames \cup {"supersonic"}

CallMoodFilter(mood) ==
    /\ Idle
    /\ call' = [NoCall EXCEPT !.op = "_apply_mood_filter", !.mood = mood]
    /\ ret' = _apply_mood_filter(mood)
    /\ UNCHANGED engine
    /\ UNCHANGED outside
    /\ UNCHANGED surroundings

CallTempoFilter(tempo) ==
    /\ Idle
    /\ call' = [NoCall EXCEPT !.op = "_apply_tempo_filter", !.tempo = tempo]
    /\ ret' = _apply_tempo_filter(tempo)
    /\ UNCHANGED engine
    /\ UNCHANGED outside
    /\ UNCHANGED surroundings

\* A slip in recommend_by_mood: the count asked for is kept as the engine's
\* n_recommendations.
RecommendByMood_Storing(mood, n_songs) ==
    /\ Idle
    /\ call' = [NoCall EXCEPT !.op = "recommend_by_mood", !.mood = mood, !.n_songs = n_songs]
    /\ ret' = recommend_by_mood(mood, n_songs)
    /\ n_recommendations' = n_songs
    /\ UNCHANGED <<df, feature_matrix_scaled, knn_model>>
    /\ UNCHANGED outside
    /\ UNCHANGED surroundings

RecommendByMood(mood, n_songs) ==
    /\ Idle
    /\ call' = [NoCall EXCEPT !.op = "recommend_by_mood", !.mood = mood, !.n_songs = n_songs]
    /\ ret' = recommend_by_mood(mood, n_songs)
    /\ UNCHANGED engine
    /\ UNCHANGED outside
    /\ UNCHANGED surroundings

RecommendByTempo(tempo, n_songs) ==
    /\ Idle
    /\ call' = [NoCall EXCEPT !.op = "recommend_by_tempo", !.tempo = tempo,
                              !.n_songs = n_songs]
    /\ ret' = recommend_by_tempo(tempo, n_songs)
    /\ UNCHANGED engine
    /\ UNCHANGED outside
    /\ UNCHANGED surroundings

RecommendByMoodAndTempo(mood, tempo, n_songs) ==
    /\ Idle
    /\ call' = [NoCall EXCEPT !.op = "recommend_by_mood_and_tempo", !.mood = mood,
                              !.tempo = tempo, !.n_songs = n_songs]
    /\ ret' = recommend_by_mood_and_tempo(mood, tempo, n_songs)
    /\ UNCHANGED engine
    /\ UNCHANGED outside
    /\ UNCHANGED surroundings

FilterQuery ==
    \/ \E mood \in MoodInputs : CallMoodFilter(mood)
    \/ \E tempo \in TempoInputs : CallTempoFilter(tempo)
    \/ \E mood \in MoodInputs, n \in 0..MaxSongs : RecommendByMood(mood, n)
    \/ \E tempo \in TempoInputs, n \in 0..MaxSongs : RecommendByTempo(tempo, n)
    \/ \E mood \in MoodInputs, tempo \in TempoInputs, n \in 0..MaxSongs :
            RecommendByMoodAndTempo(mood, tempo, n)

\* The filter-based modes on an engine constructed with the default count.
InitFilter == Init /\ n_recommendations = DefaultN

NextFilter ==
    \/ \E tracks \in CatalogsOver(FilterPool) : SetDf(tracks)
    \/ FilterQuery
    \/ Consume

SpecFilter == InitFilter /\ [][NextFilter]_vars

\* --------------------------------------------------------- similarity index
Sgn(x) == IF x > 0 THEN 1 ELSE IF x < 0 THEN -1 ELSE 0

\* Fractions num/den with den > 0.
FracLeq(x, y) == x.num * y.den <= y.num * x.den

\* Dot product of rows a and b of the scaled matrix F, times the positive
\* constant lcm(F.den)/n (the same for every pair of rows of one matrix).
Dot(F, a, b) ==
    LET D == LcmSeq(F.den)
    IN  SumSeq([j \in DOMAIN F.den |-> F.num[a][j] * F.num[b][j] * (D \div F.den[j])])

\* Squared Euclidean distance of rows a and b (cdist, metric="euclidean"),
\* times the same constant.
DistSq(F, a, b) == Dot(F, a, a) - 2 * Dot(F, a, b) + Dot(F, b, b)

\* sklearn cosine_similarity of rows a and b: the dot product of the rows
\* divided by their norms, a row of norm 0 being left as it is (similarity 0).
\* Kept as the fraction sgn(s)*s^2.
cosine_similarity(F, a, b) ==
    LET d == Dot(F, a, b)
    IN  IF Dot(F, a, a) = 0 \/ Dot(F, b, b) = 0 THEN [num |-> 0, den |-> 1]
        ELSE [num |-> Sgn(d) * d * d, den |-> Dot(F, a, a) * Dot(F, b, b)]

Perms(n) == {p \in [1..n -> 1..n] : \A i, j \in 1..n : p[i] = p[j] => i = j}

\* np.argsort (and the selection inside kneighbors): an index order with the
\* keys ascending.  The order of equal keys is not specified (the default sort
\* is not stable), so every such order is an outcome.
ArgsortOutcomes(keys) ==
    {p \in Perms(Len(keys)) :
        \A i \in 1..(Len(keys) - 1) : FracLeq(keys[p[i]], keys[p[i + 1]])}

\* (s + 1) / 2 of a similarity s, and 1 - d/2 of the cosine distance d = 1 - s.
ScoreOfSimilarity(s) == [nan |-> FALSE, num |-> s.num + s.den, den |-> 2 * s.den]

\* 1 - (d / max_dist) on squared distances: inf/inf is NaN, d/inf is 0.
ScoreOfDistance(dsq, max_dsq) ==
    IF max_dsq = INF
    THEN IF dsq = INF THEN [nan |-> TRUE, num |-> 0, den |-> 1]
         ELSE [nan |-> FALSE, num |-> 1, den |-> 1]
    ELSE IF max_dsq > 0 THEN [nan |-> FALSE, num |-> max_dsq - dsq, den |-> max_dsq]
    ELSE [nan |-> FALSE, num |-> 1 - dsq, den |-> 1]

\* The engine object a method is called on (Python's self), as a value.
Self ==
    [df |-> df, feature_matrix_scaled |-> feature_matrix_scaled,
     knn_model |-> knn_model, n_recommendations |-> n_recommendations]

ResultRowsOf(self, indices, scores) ==
    [k \in DOMAIN indices |->
        [idx |-> indices[k], track_id |-> self.df.rows[indices[k]].track_id,
         similarity_score |-> scores[k]]]

\* The "knn" branch: the outcomes of kneighbors on the seed's vector, the
\* first hit dropped, 1 - d/2 as the score.
KnnBranchOf(self, idx) ==
    LET F == self.feature_matrix_scaled
        n == Len(F.num)
        sims == [i \in 1..n |-> cosine_similarity(F, idx, i)]
        \* the cosine distance 1 - s, ordered as -s
        distances == [i \in 1..n |-> [num |-> -sims[i].num, den |-> sims[i].den]]
    IN  IF self.knn_model.n_neighbors > n
        THEN {Raised("ValueError", "Expected n_neighbors <= n_samples_fit", {})}
        ELSE {LET indices == head(p, self.knn_model.n_neighbors)
                  neighbor_indices == Tail(indices)
              IN  Returned("rows",
                     head(ResultRowsOf(self, neighbor_indices,
                                     [k \in DOMAIN neighbor_indices |->
                                         ScoreOfSimilarity(sims[neighbor_indices[k]])]),
                          self.n_recommendations),
                     <<>>)
              : p \in ArgsortOutcomes(distances)}

\* The "cosine" branch: self-similarity set to -1, the top n by descending
\* similarity, (s + 1) / 2 as the score.
CosineBranchOf(self, idx) ==
    LET F == self.feature_matrix_scaled
        n == Len(F.num)
        sim_vector == [i \in 1..n |->
                          IF i = idx THEN [num |-> -1, den |-> 1]
                          ELSE cosine_similarity(F, idx, i)]
    IN  {LET top_indices == head(Reverse(p), self.n_recommendations)
         IN  Returned("rows",
                head(ResultRowsOf(self, top_indices,
                                [k \in DOMAIN top_indices |->
                                    ScoreOfSimilarity(sim_vector[top_indices[k]])]),
                     self.n_recommendations),
                <<>>)
         : p \in ArgsortOutcomes(sim_vector)}

\* The "euclidean" branch: self-distance set to inf, the n smallest distances,
\* 1 - d/max_dist as the score (max_dist 1 when the largest selected is 0).
EuclideanBranchOf(self, idx) ==
    LET F == self.feature_matrix_scaled
        n == Len(F.num)
        dist_vector == [i \in 1..n |-> IF i = idx THEN INF ELSE DistSq(F, idx, i)]
    IN  {LET top_indices == head(p, self.n_recommendations)
             top_distances == [k \in DOMAIN top_indices |-> dist_vector[top_indices[k]]]
             max_dist == SeqMax(top_distances)
         IN  Returned("rows",
                head(ResultRowsOf(self, top_indices,
                                [k \in DOMAIN top_indices |->
                                    ScoreOfDistance(top_distances[k], max_dist)]),
                     self.n_recommendations),
                <<>>)
         : p \in ArgsortOutcomes([i \in 1..n |-> [num |-> dist_vector[i], den |-> 1]])}

\* self.df.index[self.df["track_id"] == song_id].tolist()
IndexOfIn(self, song_id) ==
    SelectSeq([i \in DOMAIN self.df.rows |-> i], LAMBDA i : self.df.rows[i].track_id = song_id)

\* The branches and the seed lookup on the engine as it is now.
KnnBranch(idx) == KnnBranchOf(Self, idx)

CosineBranch(idx) == CosineBranchOf(Self, idx)

EuclideanBranch(idx) == EuclideanBranchOf(Self, idx)

IndexOf(song_id) == IndexOfIn(Self, song_id)

\* A slip in recommend_by_song: a method name that is not "cosine" or
\* "euclidean" falls through to the "knn" branch, and a seed that is not found
\* falls back to the first row.
recommend_by_song_Lenient(song_id, method) ==
    IF ~df.loaded \/ ~feature_matrix_scaled.set
    THEN {Raised("ValueError", "Model not ready", {})}
    ELSE IF method \notin {"cosine", "euclidean"} /\ ~knn_model.built
    THEN {Raised("ValueError", "KNN model not built", {})}
    ELSE LET idx_list == IndexOf(song_id) \o <<1>>
         IN  IF method = "cosine" THEN CosineBranch(idx_list[1])
             ELSE IF method = "euclidean" THEN EuclideanBranch(idx_list[1])
             ELSE KnnBranch(idx_list[1])

\* recommend_by_song: the set of results the call can produce (one per order
\* the sorts may give to equal keys), each a frame of rows or a raised error.
RecommendBySongOf(self, song_id, method) ==
    IF ~self.df.loaded \/ ~self.feature_matrix_scaled.set
    THEN {Raised("ValueError", "Model not ready", {})}
    ELSE IF method = "knn" /\ ~self.knn_model.built
    THEN {Raised("ValueError", "KNN model not built", {})}
    ELSE LET idx_list == IndexOfIn(self, song_id)
         IN  IF idx_list = <<>> THEN {Raised("ValueError", "not found in dataset", {})}
             ELSE IF method = "knn" THEN KnnBranchOf(self, idx_list[1])
             ELSE IF method = "cosine" THEN CosineBranchOf(self, idx_list[1])
             ELSE IF method = "euclidean" THEN EuclideanBranchOf(self, idx_list[1])
             ELSE {Raised("ValueError", "Unknown method", {"knn", "cosine", "euclidean"})}

\* recommend_by_song called on the engine as it is now.
recommend_by_song(song_id, method) == RecommendBySongOf(Self, song_id, method)

\* A slip in build_knn_model: no check that the scaled matrix is there.
build_knn_model_Unguarded(n_neighbors) ==
    [knn |-> [built |-> TRUE, n_neighbors |-> n_neighbors],
     ret |-> Returned("none", <<>>, <<>>)]

\* A slip in build_knn_model: one neighbour more than asked for, to make up
\* for the seed that a neighbour query finds first.
build_knn_model_OneMore(n_neighbors) ==
    IF ~feature_matrix_scaled.set
    THEN [knn |-> knn_model, ret |-> Raised("ValueError", "Feature matrix not built", {})]
    ELSE [knn |-> [built |-> TRUE, n_neighbors |-> n_neighbors + 1],
          ret |-> Returned("none", <<>>, <<>>)]

\* build_knn_model: the new neighbour structure, or the error raised.
build_knn_model(n_neighbors) ==
    IF ~feature_matrix_scaled.set
    THEN [knn |-> knn_model, ret |-> Raised("ValueError", "Feature matrix not built", {})]
    ELSE [knn |-> [built |-> TRUE, n_neighbors |-> n_neighbors],
          ret |-> Returned("none", <<>>, <<>>)]

MethodInputs == {"knn", "cosine", "euclidean", "manhattan"}

SongInputs == {TrackIds[i] : i \in 1..MaxCatalog} \cup {UnknownId}

BuildKnn(n_neighbors) ==
    /\ Idle
    /\ call' = [NoCall EXCEPT !.op = "build_knn_model", !.n_neighbors = n_neighbors]
    /\ knn_model' = build_knn_model(n_neighbors).knn
    /\ ret' = build_knn_model(n_neighbors).ret
    /\ UNCHANGED <<df, feature_matrix_scaled, n_recommendations>>
    /\ UNCHANGED outside
    /\ UNCHANGED surroundings

RecommendBySong(song_id, method) ==
    /\ Idle
    /\ call' = [NoCall EXCEPT !.op = "recommend_by_song", !.song_id = song_id,
                              !.method = method]
    /\ ret' \in recommend_by_song(song_id, method)
    /\ UNCHANGED engine
    /\ UNCHANGED outside
    /\ UNCHANGED surroundings

SongQuery == \E song_id \in SongInputs, method \in MethodInputs : RecommendBySong(song_id, method)

\* The similarity mode on engines built from catalogs over SongPool.
NextSong ==
    \/ \E tracks \in CatalogsOver(SongPool) : SetDf(tracks)
    \/ FitTransform
    \/ \E k \in 1..MaxK : BuildKnn(k)
    \/ SongQuery
    \/ Consume

SpecSong == Init /\ [][NextSong]_vars

\* Every operation of the engine, on catalogs over SmallPool.
Next ==
    \/ \E tracks \in CatalogsOver(SmallPool) : SetDf(tracks)
    \/ FitTransform
    \/ \E k \in 1..MaxK : BuildKnn(k)
    \/ FilterQuery
    \/ SongQuery
    \/ Consume

Spec == Init /\ [][Next]_vars

\* ------------------------------------------------------------- persistence
\* save_model: joblib.dump of the scaler, feature_names, knn_model and
\* n_recommendations (the catalog and the feature matrices are not part of
\* the bundle).
SaveModel ==
    /\ Idle
    /\ model_file' = [saved |-> TRUE, knn_model |-> knn_model,
                      n_recommendations |-> n_recommendations]
    /\ call' = [NoCall EXCEPT !.op = "save_model"]
    /\ ret' = Returned("none", <<>>, <<>>)
    /\ UNCHANGED engine
    /\ UNCHANGED clustering
    /\ UNCHANGED surroundings

\* load_model: a new engine constructed with the bundle's n_recommendations
\* and given the bundle's knn_model; it is the engine queried from here on.
LoadModel ==
    /\ Idle
    /\ model_file.saved
    /\ df' = Unloaded
    /\ feature_matrix_scaled' = NoMatrix
    /\ knn_model' = model_file.knn_model
    /\ n_recommendations' = model_file.n_recommendations
    /\ call' = [NoCall EXCEPT !.op = "load_model"]
    /\ ret' = Returned("none", <<>>, <<>>)
    /\ UNCHANGED model_file
    /\ UNCHANGED clustering
    /\ UNCHANGED surroundings

\* Every operation of the engine and the two persistence operations.
NextPersist ==
    \/ \E tracks \in CatalogsOver(SmallPool) : SetDf(tracks)
    \/ FitTransform
    \/ \E k \in 1..MaxK : BuildKnn(k)
    \/ SaveModel
    \/ LoadModel
    \/ FilterQuery
    \/ SongQuery
    \/ Consume

SpecPersist == Init /\ [][NextPersist]_vars

\* --------------------------------------------------------------- clustering
TrackA == Track(7, 7, 7, 120, 2)

TrackB == Track(3, 3, 3, 100, 6)

TrackC == Track(3, 7, 3, 120, 2)

TrackE == Track(7, 3, 3, 100, 6)

\* Ten rows, the smallest number every candidate k = 2..10 can be fitted on.
BigDataset == [i \in 1..DefaultMaxClusters |-> IF i % 2 = 1 THEN TrackA ELSE TrackB]

\* The datasets the clustering stage is run on: distinct rows, three distinct
\* rows among four, two distinct rows among four, a missing valence, a
\* missing tempo, the same tempo in every row, one row, two rows, and ten rows.
Datasets ==
    {<<TrackA, TrackB, TrackC>>,
     <<TrackA, TrackA, TrackB, TrackC>>,
     <<TrackA, TrackA, TrackB, TrackB>>,
     <<TrackA, [TrackB EXCEPT !.valence = NA], TrackB, TrackC>>,
     <<TrackA, TrackB, [TrackC EXCEPT !.tempo = NA], TrackE>>,
     <<TrackA, TrackC>>,
     <<TrackA>>,
     <<TrackA, TrackB>>,
     BigDataset}

Seeds == {DefaultRandomState, OtherRandomState}

NaNValue == [nan |-> TRUE, num |-> 0, den |-> 1]

\* (x - min) / (max - min) on a pandas column: min and max skip missing
\* values, a missing x gives NaN, and so does 0/0 when max = min.
MinMaxNormalizedUnsafe(x, column) ==
    LET present == SelectSeq(column, LAMBDA t : t # NA)
    IN  IF x = NA \/ present = <<>> THEN NaNValue
        ELSE IF SeqMax(present) = SeqMin(present) THEN NaNValue
        ELSE [nan |-> FALSE, num |-> x - SeqMin(present),
              den |-> SeqMax(present) - SeqMin(present)]

\* self.feature_names of select_features
ClusterFeatureNames ==
    <<"valence", "energy", "danceability", "tempo_normalized", "acousticness">>

\* df.copy() with tempo_normalized added (and no cluster column yet).
TempoNormalizedCopy(data) ==
    LET tempos == AsTuple([i \in DOMAIN data |-> data[i].tempo])
    IN  [i \in DOMAIN data |->
            [valence |-> data[i].valence, energy |-> data[i].energy,
             danceability |-> data[i].danceability, tempo |-> data[i].tempo,
             acousticness |-> data[i].acousticness,
             instrumentalness |-> data[i].instrumentalness,
             liveness |-> data[i].liveness, speechiness |-> data[i].speechiness,
             loudness |-> data[i].loudness,
             tempo_normalized |-> MinMaxNormalizedUnsafe(data[i].tempo, tempos),
             cluster |-> NA]]

\* df_features[self.feature_names].values (tempo_normalized in units of
\* 1/range).
FeatureValues(df_features) ==
    AsTuple([i \in DOMAIN df_features |->
                <<df_features[i].valence, df_features[i].energy,
                  df_features[i].danceability, df_features[i].tempo_normalized.num,
                  df_features[i].acousticness>>])

\* A slip in select_features: dropna left out.
select_features_KeepAll(data) ==
    [X |-> FeatureValues(TempoNormalizedCopy(data)),
     df_features |-> AsTuple(TempoNormalizedCopy(data))]

\* select_features: the copy of df with tempo_normalized added and the rows
\* with a missing value in a selected feature dropped, and the matrix X of the
\* selected features.
select_features(data) ==
    LET df_features ==
            SelectSeq(TempoNormalizedCopy(data),
                      LAMBDA r : /\ r.valence # NA /\ r.energy # NA
                                 /\ r.danceability # NA /\ ~r.tempo_normalized.nan
                                 /\ r.acousticness # NA)
    IN  [X |-> FeatureValues(df_features), df_features |-> df_features]

\* The number of distinct labels silhouette_score and davies_bouldin_score
\* accept: 2 <= n_labels <= n_samples - 1 (ValueError otherwise).
ValidNumberOfLabels(n_labels, n_samples) == 2 <= n_labels /\ n_labels <= n_samples - 1

DistinctRows(X) == {X.num[i] : i \in DOMAIN X.num}

\* KMeans(n_clusters=k).fit_predict(X) for k <= n_samples: a label in 0..k-1
\* for every row, equal rows labelled alike, and min(k, distinct rows)
\* clusters non-empty.  Which rows share a cluster and which ids are used is
\* the library's choice.
KMeansLabelings(X, k) ==
    LET points == DistinctRows(X)
        used == Min(k, Cardinality(points))
    IN  {AsTuple([i \in DOMAIN X.num |-> f[X.num[i]]]) :
            f \in {g \in [points -> 0..(k - 1)] :
                      Cardinality({g[x] : x \in points}) = used}}

\* A slip in fit: KMeans built without random_state draws its own seed at
\* every call.
KMeans_fit_predict_Unseeded(X, k, random_state, memo) == KMeansLabelings(X, k)

\* KMeans with random_state set is a function of the data, k and the seed:
\* a problem solved before gives the labels it gave then.
KMeans_fit_predict(X, k, random_state, memo) ==
    IF \E e \in memo : e.X = X /\ e.k = k /\ e.random_state = random_state
    THEN {e.labels : e \in {m \in memo : m.X = X /\ m.k = k /\ m.random_state = random_state}}
    ELSE KMeansLabelings(X, k)

\* The values a score takes in the model: two levels, enough for a largest
\* score that is unique or shared.
ScoreValues == 1..2

\* The score lists of a search over K_range: every list for a short range;
\* for a longer range the lists with the maximum at the first candidate, at the
\* last candidate, and shared by the second and the last candidate.
ScoreLists(K_range) ==
    IF Cardinality(K_range) <= MaxSearch
    THEN [K_range -> ScoreValues]
    ELSE LET lo == CHOOSE k \in K_range : \A j \in K_range : k <= j
             hi == CHOOSE k \in K_range : \A j \in K_range : k >= j
         IN  {[k \in K_range |-> IF k \in T THEN 2 ELSE 1] :
                 T \in {{lo}, {hi}, {lo + 1, hi}}}

\* A slip in find_optimal_clusters: the last candidate with the largest score.
ArgmaxLast(K_range, scores) ==
    CHOOSE k \in K_range :
        /\ \A j \in K_range : scores[k] >= scores[j]
        /\ \A j \in K_range : scores[j] = scores[k] => k >= j

\* K_range[np.argmax(silhouette_scores)]: the first candidate with the
\* largest score.
ArgmaxFirst(K_range, scores) ==
    CHOOSE k \in K_range :
        /\ \A j \in K_range : scores[k] >= scores[j]
        /\ \A j \in K_range : scores[j] = scores[k] => k <= j

\* find_optimal_clusters: the searches it can make (one per list of scores
\* the two metrics can give), or the error raised by the first candidate
\* that cannot be fitted or scored, or by np.argmax on an empty list.
find_optimal_clusters(X, max_clusters) ==
    LET K_range == 2..max_clusters
        n == Len(X.num)
        fails(k) == k > n \/ ~ValidNumberOfLabels(Min(k, Cardinality(DistinctRows(X))), n)
    IN  IF K_range = {} \/ \E k \in K_range : fails(k)
        THEN {[NoSearch EXCEPT !.raised = TRUE, !.max_clusters = max_clusters,
                               !.K_range = K_range]}
        ELSE {[raised |-> FALSE, max_clusters |-> max_clusters, K_range |-> K_range,
               silhouette_scores |-> sil,
               davies_bouldin_scores |-> db, optimal_k |-> ArgmaxFirst(K_range, sil)] :
                 sil \in ScoreLists(K_range), db \in ScoreLists(K_range)}

FitRaised(c, data, auto_optimize, at, search) ==
    [NoOutput EXCEPT !.op = "fit", !.status = "error", !.exc = "ValueError", !.at = at,
                     !.df = data, !.auto_optimize = auto_optimize,
                     !.n_clusters = c.n_clusters, !.random_state = c.random_state,
                     !.search = search]

\* The last part of fit: k-means at self.n_clusters, the two scores, and the
\* cluster column.
FitKMeans(c, data, auto_optimize, sel, X_scaled, search, memo) ==
    LET k == c.n_clusters
        n == Len(sel.X)
    IN  IF k > n
        THEN {[clusterer |-> [c EXCEPT !.kmeans = [state |-> "unfitted", n_clusters |-> k,
                                                    labels_ |-> <<>>]],
               output |-> FitRaised(c, data, auto_optimize, "kmeans.fit_predict", search),
               memo |-> memo]}
        ELSE {LET fitted == [c EXCEPT !.kmeans = [state |-> "fitted", n_clusters |-> k,
                                                  labels_ |-> cluster_labels]]
                  solved == memo \cup {[X |-> X_scaled, k |-> k,
                                        random_state |-> c.random_state,
                                        labels |-> cluster_labels]}
              IN  IF ~ValidNumberOfLabels(
                         Cardinality({cluster_labels[i] : i \in DOMAIN cluster_labels}), n)
                  THEN [clusterer |-> fitted,
                        output |-> FitRaised(c, data, auto_optimize, "silhouette_score",
                                             search),
                        memo |-> solved]
                  ELSE [clusterer |-> fitted,
                        output |->
                            [NoOutput EXCEPT
                                !.op = "fit", !.status = "ok", !.df = data,
                                !.auto_optimize = auto_optimize,
                                !.n_clusters = k, !.random_state = c.random_state,
                                !.df_features =
                                    [i \in DOMAIN sel.df_features |->
                                        [sel.df_features[i] EXCEPT
                                            !.cluster = cluster_labels[i]]],
                                !.X_scaled = X_scaled, !.search = search],
                        memo |-> solved]
              : cluster_labels \in KMeans_fit_predict(X_scaled, k, c.random_state, memo)}

\* fit: the outcomes of fit(df, auto_optimize) on clusterer c, each the
\* clusterer after the call, what the call returned or raised, and the
\* k-means problems solved so far.
fit(c, data, auto_optimize, memo) ==
    LET sel == select_features(data)
        selected == [c EXCEPT !.feature_names = ClusterFeatureNames]
    IN  IF sel.X = <<>>
        THEN {[clusterer |-> selected,
               output |-> FitRaised(c, data, auto_optimize, "scaler.fit_transform", NoSearch),
               memo |-> memo]}
        ELSE LET X_scaled == StandardScaler_fit_transform(sel.X)
                 scaled == [selected EXCEPT !.scaler = [fitted |-> TRUE]]
             IN  IF ~auto_optimize
                 THEN FitKMeans(scaled, data, auto_optimize, sel, X_scaled, NoSearch, memo)
                 ELSE UNION {IF search.raised
                             THEN {[clusterer |-> scaled,
                                    output |-> FitRaised(c, data, auto_optimize,
                                                         "find_optimal_clusters", search),
                                    memo |-> memo]}
                             ELSE FitKMeans([scaled EXCEPT !.n_clusters = search.optimal_k],
                                            data, auto_optimize, sel, X_scaled, search, memo)
                             : search \in find_optimal_clusters(X_scaled, DefaultMaxClusters)}

\* A slip in _interpret_cluster: >= for >.
MeanGt_Lenient(x, t) == x.num >= t * x.den

\* x > t and x < t for a mean x = num/den and a threshold t in tenths.
MeanGt(x, t) == x.num > t * x.den

MeanLt(x, t) == x.num < t * x.den

\* _interpret_cluster: the label of a cluster's mean feature vector.
_interpret_cluster(features) ==
    LET valence == features.valence
        energy == features.energy
        danceability == features.danceability
        acousticness == features.acousticness
    IN  IF MeanGt(energy, 6) /\ MeanGt(valence, 6) /\ MeanGt(danceability, 6)
        THEN "Energetic & Happy"
        ELSE IF MeanGt(energy, 6) /\ MeanLt(valence, 4) THEN "Intense & Dark"
        ELSE IF MeanLt(energy, 4) /\ MeanGt(valence, 6) THEN "Calm & Peaceful"
        ELSE IF MeanLt(energy, 4) /\ MeanLt(valence, 4) THEN "Melancholic"
        ELSE IF MeanGt(danceability, 7) THEN "Party & Dance"
        ELSE IF MeanGt(acousticness, 6) THEN "Acoustic & Mellow"
        ELSE "Balanced & Versatile"

\* df_clustered.groupby('cluster')[...].mean().loc[cluster_id]: the mean of
\* the five raw features over the rows of the cluster, each sum/count.
ClusterMean(df_clustered, cluster_id) ==
    LET members == SelectSeq(df_clustered, LAMBDA r : r.cluster = cluster_id)
        mean(column) == [num |-> SumSeq([i \in DOMAIN members |-> column[i]]),
                         den |-> Len(members)]
    IN  [valence |-> mean([i \in DOMAIN members |-> members[i].valence]),
         energy |-> mean([i \in DOMAIN members |-> members[i].energy]),
         danceability |-> mean([i \in DOMAIN members |-> members[i].danceability]),
         tempo |-> mean([i \in DOMAIN members |-> members[i].tempo]),
         acousticness |-> mean([i \in DOMAIN members |-> members[i].acousticness])]

ClusterIds(df_clustered) == {df_clustered[i].cluster : i \in DOMAIN df_clustered}

\* analyze_clusters: for cluster_id in range(self.n_clusters) the label of
\* the cluster's mean is stored in self.cluster_labels; cluster_means.loc of
\* an id with no row raises KeyError and ends the loop there.
analyze_clusters(c, df_clustered) ==
    LET absent == {id \in 0..(c.n_clusters - 1) : id \notin ClusterIds(df_clustered)}
        stop == IF absent = {} THEN c.n_clusters
                ELSE CHOOSE id \in absent : \A other \in absent : id <= other
        labels == [id \in DOMAIN c.cluster_labels \cup 0..(stop - 1) |->
                      IF id < stop THEN _interpret_cluster(ClusterMean(df_clustered, id))
                      ELSE c.cluster_labels[id]]
    IN  [clusterer |-> [c EXCEPT !.cluster_labels = labels,
                                 !.analyzed = c.analyzed \/ absent = {}],
         output |-> [NoOutput EXCEPT !.op = "analyze_clusters",
                                     !.status = IF absent = {} THEN "ok" ELSE "error",
                                     !.exc = IF absent = {} THEN "-" ELSE "KeyError",
                                     !.at = IF absent = {} THEN "-" ELSE "cluster_means.loc",
                                     !.n_clusters = c.n_clusters,
                                     !.random_state = c.random_state,
                                     !.df_clustered = df_clustered]]

\* The cleaning stage leaves the dataset the clustering stage reads.
WriteDataset(data) ==
    /\ ~dataset.written
    /\ dataset' = [written |-> TRUE, tracks |-> data]
    /\ UNCHANGED <<clusterers, outputs, kmeans_memo>>
    /\ UNCHANGED <<engine, call, ret, model_file>>
    /\ UNCHANGED surroundings

\* clusterer = MoodClusterer(n_clusters, random_state)
NewClusterer(i, n_clusters, random_state) ==
    /\ clusterers' = [clusterers EXCEPT ![i] = MoodClusterer(n_clusters, random_state)]
    /\ outputs' = [outputs EXCEPT ![i] = NoOutput]
    /\ UNCHANGED <<dataset, kmeans_memo>>
    /\ UNCHANGED <<engine, call, ret, model_file>>
    /\ UNCHANGED surroundings

\* clusterer.select_features(df)
SelectFeatures(i) ==
    /\ dataset.written
    /\ clusterers[i].constructed
    /\ clusterers' = [clusterers EXCEPT ![i].feature_names = ClusterFeatureNames]
    /\ outputs' = [outputs EXCEPT ![i] =
            [NoOutput EXCEPT !.op = "select_features", !.status = "ok",
                             !.df = dataset.tracks,
                             !.n_clusters = clusterers[i].n_clusters,
                             !.random_state = clusterers[i].random_state,
                             !.df_features = select_features(dataset.tracks).df_features]]
    /\ UNCHANGED <<dataset, kmeans_memo>>
    /\ UNCHANGED <<engine, call, ret, model_file>>
    /\ UNCHANGED surroundings

\* clusterer.find_optimal_clusters(X_scaled, max_clusters) on the scaled
\* features of the dataset.
FindOptimalClusters(i, max_clusters) ==
    /\ dataset.written
    /\ clusterers[i].constructed
    /\ select_features(dataset.tracks).X # <<>>
    /\ \E search \in find_optimal_clusters(
                        StandardScaler_fit_transform(select_features(dataset.tracks).X),
                        max_clusters) :
          outputs' = [outputs EXCEPT ![i] =
            [NoOutput EXCEPT !.op = "find_optimal_clusters",
                             !.status = IF search.raised THEN "error" ELSE "ok",
                             !.exc = IF search.raised THEN "ValueError" ELSE "-",
                             !.df = dataset.tracks,
                             !.n_clusters = clusterers[i].n_clusters,
                             !.random_state = clusterers[i].random_state,
                             !.search = search]]
    /\ UNCHANGED <<dataset, clusterers, kmeans_memo>>
    /\ UNCHANGED <<engine, call, ret, model_file>>
    /\ UNCHANGED surroundings

\* clusterer.fit(df, auto_optimize)
Fit(i, auto_optimize) ==
    /\ dataset.written
    /\ clusterers[i].constructed
    /\ \E o \in fit(clusterers[i], dataset.tracks, auto_optimize, kmeans_memo) :
          /\ Cardinality(o.memo) <= MaxMemo
          /\ clusterers' = [clusterers EXCEPT ![i] = o.clusterer]
          /\ outputs' = [outputs EXCEPT ![i] = o.output]
          /\ kmeans_memo' = o.memo
    /\ UNCHANGED dataset
    /\ UNCHANGED <<engine, call, ret, model_file>>
    /\ UNCHANGED surroundings

\* clusterer.analyze_clusters(df_clustered), df_clustered the frame the last
\* fit of clusterer j returned.
AnalyzeClusters(i, j) ==
    /\ clusterers[i].constructed
    /\ outputs[j].op = "fit"
    /\ outputs[j].status = "ok"
    /\ clusterers' = [clusterers EXCEPT ![i] =
            analyze_clusters(clusterers[i], outputs[j].df_features).clusterer]
    /\ outputs' = [outputs EXCEPT ![i] =
            analyze_clusters(clusterers[i], outputs[j].df_features).output]
    /\ UNCHANGED <<dataset, kmeans_memo>>
    /\ UNCHANGED <<engine, call, ret, model_file>>
    /\ UNCHANGED surroundings

ClusterCounts == (2..MaxClusters) \cup {DefaultNClusters}

\* clusterer._interpret_cluster(features)
InterpretCluster(i, features) ==
    /\ clusterers[i].constructed
    /\ outputs' = [outputs EXCEPT ![i] =
            [NoOutput EXCEPT !.op = "_interpret_cluster", !.status = "ok",
                             !.n_clusters = clusterers[i].n_clusters,
                             !.random_state = clusterers[i].random_state,
                             !.features = features,
                             !.label = _interpret_cluster(features)]]
    /\ UNCHANGED <<dataset, clusterers, kmeans_memo>>
    /\ UNCHANGED <<engine, call, ret, model_file>>
    /\ UNCHANGED surroundings

\* The clustering stage runs on its own, before any recommender is used: its
\* runs start with the recommender main() constructs.
InitCluster == Init /\ n_recommendations = DefaultN

\* The clustering stage: a clusterer constructed, fitted without the search
\* for k and analyzed, again and again, and a second clusterer that is never
\* fitted and is handed the first one's clustered frame.
NextCluster ==
    \/ \E i \in Instances, n \in ClusterCounts : NewClusterer(i, n, DefaultRandomState)
    \/ \E data \in Datasets : WriteDataset(data)
    \/ Fit(1, FALSE)
    \/ \E i \in Instances : AnalyzeClusters(i, 1)

SpecCluster == InitCluster /\ [][NextCluster]_vars

\* The search for k: called directly on a clusterer that has not been fitted
\* (as test_returns_optimal_k does), and from fit.
NextSearch ==
    \/ \E data \in Datasets : WriteDataset(data)
    \/ NewClusterer(1, DefaultNClusters, DefaultRandomState)
    \/ /\ clusterers[1].kmeans = NoKMeans
       /\ \E max_clusters \in 1..MaxSearch : FindOptimalClusters(1, max_clusters)
    \/ Fit(1, TRUE)

SpecSearch == InitCluster /\ [][NextSearch]_vars

\* The datasets two clusterers are compared on: three and two distinct rows
\* among four, a missing valence, and ten rows.
ReproDatasets ==
    {<<TrackA, TrackA, TrackB, TrackC>>,
     <<TrackA, TrackA, TrackB, TrackB>>,
     <<TrackA, [TrackB EXCEPT !.valence = NA], TrackB, TrackC>>,
     BigDataset}

\* Two clusterers fitted side by side without the search for k.
NextRepro ==
    \/ \E data \in ReproDatasets : WriteDataset(data)
    \/ \E i \in Instances, n \in {MaxClusters, DefaultNClusters}, seed \in Seeds :
          NewClusterer(i, n, seed)
    \/ \E i \in Instances : Fit(i, FALSE)

SpecRepro == InitCluster /\ [][NextRepro]_vars

\* Mean values in twentieths: 0.35, 0.4, 0.45, 0.6, 0.65, 0.7 and 0.75, on
\* each side of and on the thresholds 0.4, 0.6 and 0.7.
Half(n) == [num |-> n, den |-> 2]

\* The mean vectors _interpret_cluster is applied to.
MeanVectors ==
    {[valence |-> Half(v), energy |-> Half(e), danceability |-> Half(d),
      tempo |-> Half(240), acousticness |-> Half(a)] :
        v \in {7, 8, 9, 12, 13}, e \in {7, 8, 9, 12, 13}, d \in {12, 13, 14, 15},
        a \in {12, 13}}

\* The labelling rule on its own, applied to mean vectors.
NextInterpret ==
    \/ NewClusterer(1, DefaultNClusters, DefaultRandomState)
    \/ \E features \in MeanVectors : InterpretCluster(1, features)

SpecInterpret == InitCluster /\ [][NextInterpret]_vars

\* ------------------------------------------------------ clusterer bundle
\* MoodClusterer.save_model: the five entries of model_data.
MoodClusterer_save_model(c) ==
    [saved |-> TRUE, kmeans |-> c.kmeans, scaler |-> c.scaler,
     feature_names |-> c.feature_names, n_clusters |-> c.n_clusters,
     cluster_labels |-> c.cluster_labels]

\* MoodClusterer.load_model: cls(n_clusters=model_data['n_clusters']) with
\* the default random_state, then the four other entries of the bundle.
MoodClusterer_load_model(file) ==
    [MoodClusterer(file.n_clusters, DefaultRandomState) EXCEPT
        !.kmeans = file.kmeans, !.scaler = file.scaler,
        !.feature_names = file.feature_names, !.cluster_labels = file.cluster_labels]

\* clusterer.save_model()
SaveClusterer(i) ==
    /\ clusterers[i].constructed
    /\ cluster_file' = MoodClusterer_save_model(clusterers[i])
    /\ outputs' = [outputs EXCEPT ![i] =
            [NoOutput EXCEPT !.op = "save_model", !.status = "ok",
                             !.n_clusters = clusterers[i].n_clusters,
                             !.random_state = clusterers[i].random_state]]
    /\ UNCHANGED <<raw_songs, cleaned_songs, cleaner, pipeline, requests>>
    /\ UNCHANGED <<dataset, clusterers, kmeans_memo>>
    /\ UNCHANGED <<engine, call, ret, model_file>>

\* clusterer = MoodClusterer.load_model()
LoadClusterer(i) ==
    /\ cluster_file.saved
    /\ clusterers' = [clusterers EXCEPT ![i] = MoodClusterer_load_model(cluster_file)]
    /\ outputs' = [outputs EXCEPT ![i] =
            [NoOutput EXCEPT !.op = "load_model", !.status = "ok",
                             !.n_clusters = clusterers'[i].n_clusters,
                             !.random_state = clusterers'[i].random_state]]
    /\ UNCHANGED <<raw_songs, cleaned_songs, cleaner, pipeline, requests, cluster_file>>
    /\ UNCHANGED <<dataset, kmeans_memo>>
    /\ UNCHANGED <<engine, call, ret, model_file>>

\* The datasets a saved clusterer is fitted on: three distinct rows, and
\* three distinct rows among four.
BundleDatasets ==
    {<<TrackA, TrackB, TrackC>>,
     <<TrackA, TrackA, TrackB, TrackC>>}

\* A clusterer constructed with either seed, fitted, analyzed and saved, and
\* a second one loaded from the bundle and fitted again on the same data.
NextBundle ==
    \/ \E data \in BundleDatasets : WriteDataset(data)
    \/ \E n \in {MaxClusters, DefaultNClusters}, seed \in Seeds : NewClusterer(1, n, seed)
    \/ \E i \in Instances : Fit(i, FALSE)
    \/ AnalyzeClusters(1, 1)
    \/ SaveClusterer(1)
    \/ LoadClusterer(2)

SpecBundle == InitCluster /\ [][NextBundle]_vars

\* ------------------------------------------------- initialisation paths
\* rec.feature_names of the three initialisation paths.
RawFeatureNames ==
    {"valence", "energy", "danceability", "tempo", "acousticness", "instrumentalness",
     "liveness", "speechiness", "loudness"}

\* The table an initialisation path reads: its rows, and which of the raw
\* feature columns it has.
Source(tracks, missing) == [tracks |-> tracks, columns |-> RawFeatureNames \ missing]

WithLoudness(t, loudness) == [t EXCEPT !.loudness = loudness]

\* Ten rows with three tempos and three loudness values, enough for the
\* neighbour queries of main.
TenRows ==
    [i \in 1..10 |-> IF i % 3 = 1 THEN TrackA
                     ELSE IF i % 3 = 2 THEN WithLoudness(TrackB, -5)
                     ELSE WithLoudness([TrackC EXCEPT !.tempo = 140], -6)]

\* The tables the initialisation paths are run on: tempo and loudness both
\* varying (two, three and ten rows), both constant, tempo constant alone,
\* loudness constant alone, ten rows with constant tempo, a row with a
\* missing valence, a single row, and tables without a tempo column and
\* without a liveness column.
InitSources ==
    {Source(<<TrackA, WithLoudness(TrackB, -5)>>, {}),
     Source(<<TrackA, WithLoudness(TrackB, -5), WithLoudness(TrackC, -6)>>, {}),
     Source(TenRows, {}),
     Source(<<TrackA, TrackC>>, {}),
     Source(<<TrackA, WithLoudness(TrackC, -5)>>, {}),
     Source(<<TrackA, TrackB>>, {}),
     Source([i \in 1..10 |-> [TenRows[i] EXCEPT !.tempo = 120]], {}),
     Source(<<TrackA, [TrackB EXCEPT !.valence = NA], WithLoudness(TrackC, -6)>>, {}),
     Source(<<TrackA>>, {}),
     Source(<<TrackA, WithLoudness(TrackB, -5)>>, {"tempo"}),
     Source(<<TrackA, WithLoudness(TrackB, -5)>>, {"liveness"})}

MissingColumns(source) == RawFeatureNames \ source.columns

HasNA(t) == \E c \in RawFeatureNames : t[c] = NA

\* The positions of the rows dropna(subset=rec.feature_names) keeps.
KeptIndex(tracks) == SelectSeq(AsTuple([i \in DOMAIN tracks |-> i]), LAMBDA i : ~HasNA(tracks[i]))

\* rec.df after dropna, reset_index and the two normalized columns under the
\* zero-range policy (a constant column normalizes to 0).
CleanFrame(tracks) ==
    LET idx == KeptIndex(tracks)
        frame == LoadedFrame(AsTuple([j \in DOMAIN idx |-> tracks[idx[j]]]))
    IN  AsTuple([j \in DOMAIN idx |-> [frame[j] EXCEPT !.track_id = TrackIds[idx[j]]]])

\* A column of rec.df has the same value in every row.
ConstantColumn(rows, c) == \A i, j \in DOMAIN rows : rows[i][c] = rows[j][c]

\* What an initialisation path gives: the engine it returns, or the error it
\* raises (no engine is returned then).
Built(rows, n, knn) ==
    [ok |-> TRUE, df |-> [loaded |-> TRUE, rows |-> rows],
     feature_matrix_scaled |-> StandardScaler_fit_transform(AsTuple(FeatureMatrix(rows))),
     knn_model |-> knn, n_recommendations |-> n, ret |-> Returned("none", <<>>, <<>>)]

Failed(exc, msg, columns) ==
    [ok |-> FALSE, df |-> Unloaded, feature_matrix_scaled |-> NoMatrix, knn_model |-> NoKnn,
     n_recommendations |-> 0, ret |-> Raised(exc, msg, columns)]

\* init_recommender of the API server: no check of the columns (dropna raises
\* KeyError for a missing one), division by 1.0 for a constant column, and a
\* neighbour structure only for two rows or more.
init_recommender(source) ==
    IF MissingColumns(source) # {}
    THEN Failed("KeyError", "dropna: column labels not found", MissingColumns(source))
    ELSE IF CleanFrame(source.tracks) = <<>>
    THEN Failed("ValueError", "fit_transform: found array with 0 samples", {})
    ELSE Built(CleanFrame(source.tracks), 50,
               IF Len(CleanFrame(source.tracks)) >= 2
               THEN [built |-> TRUE, n_neighbors |-> Min(50, Len(CleanFrame(source.tracks)) - 1)]
               ELSE NoKnn)

\* load_data of the CLI: ValueError for a missing column, 0.0 for a constant
\* column, and a neighbour structure of at least one neighbour.
load_data(source) ==
    IF MissingColumns(source) # {}
    THEN Failed("ValueError", "Dataset is missing required columns", MissingColumns(source))
    ELSE IF CleanFrame(source.tracks) = <<>>
    THEN Failed("ValueError", "fit_transform: found array with 0 samples", {})
    ELSE Built(CleanFrame(source.tracks), 10,
               [built |-> TRUE,
                n_neighbors |-> IF Len(CleanFrame(source.tracks)) <= 2 THEN 1
                                ELSE Min(10, Len(CleanFrame(source.tracks)) - 1)])

\* main of recommender.py: no check of the columns, (x - min) / (max - min)
\* with no guard (NaN in every row of a constant column, which
\* NearestNeighbors.fit rejects), build_knn_model(10), and the demo queries
\* (kneighbors raises when the catalog has fewer than 10 rows).
main(source) ==
    IF MissingColumns(source) # {}
    THEN Failed("KeyError", "dropna: column labels not found", MissingColumns(source))
    ELSE IF CleanFrame(source.tracks) = <<>>
    THEN Failed("ValueError", "fit_transform: found array with 0 samples", {})
    ELSE IF \/ ConstantColumn(CleanFrame(source.tracks), "tempo")
            \/ ConstantColumn(CleanFrame(source.tracks), "loudness")
    THEN Failed("ValueError", "build_knn_model: input contains NaN", {})
    ELSE IF Len(CleanFrame(source.tracks)) < 10
    THEN Failed("ValueError", "recommend_by_song: n_neighbors > n_samples_fit", {})
    ELSE Built(CleanFrame(source.tracks), 5, [built |-> TRUE, n_neighbors |-> 10])

\* rec = init_recommender() at the import of api_server.
InitRecommender(source) ==
    /\ Idle
    /\ ~df.loaded
    /\ call' = [NoCall EXCEPT !.op = "init_recommender", !.source = source]
    /\ ret' = init_recommender(source).ret
    /\ IF init_recommender(source).ok
       THEN /\ df' = init_recommender(source).df
            /\ feature_matrix_scaled' = init_recommender(source).feature_matrix_scaled
            /\ knn_model' = init_recommender(source).knn_model
            /\ n_recommendations' = init_recommender(source).n_recommendations
       ELSE UNCHANGED engine
    /\ UNCHANGED outside
    /\ UNCHANGED surroundings

\* rec, clusterer = load_data() of the CLI.
LoadData(source) ==
    /\ Idle
    /\ ~df.loaded
    /\ call' = [NoCall EXCEPT !.op = "load_data", !.source = source]
    /\ ret' = load_data(source).ret
    /\ IF load_data(source).ok
       THEN /\ df' = load_data(source).df
            /\ feature_matrix_scaled' = load_data(source).feature_matrix_scaled
            /\ knn_model' = load_data(source).knn_model
            /\ n_recommendations' = load_data(source).n_recommendations
            /\ clusterers' = [clusterers EXCEPT ![1] =
                    MoodClusterer(DefaultNClusters, DefaultRandomState)]
            /\ outputs' = [outputs EXCEPT ![1] = NoOutput]
       ELSE UNCHANGED <<engine, clusterers, outputs>>
    /\ UNCHANGED <<model_file, dataset, kmeans_memo>>
    /\ UNCHANGED surroundings

\* main() of recommender.py, save_model at its end included.
Main(source) ==
    /\ Idle
    /\ ~df.loaded
    /\ call' = [NoCall EXCEPT !.op = "main", !.source = source]
    /\ ret' = main(source).ret
    /\ IF main(source).ok
       THEN /\ df' = main(source).df
            /\ feature_matrix_scaled' = main(source).feature_matrix_scaled
            /\ knn_model' = main(source).knn_model
            /\ n_recommendations' = main(source).n_recommendations
            /\ model_file' = [saved |-> TRUE, knn_model |-> main(source).knn_model,
                              n_recommendations |-> main(source).n_recommendations]
       ELSE UNCHANGED <<engine, model_file>>
    /\ UNCHANGED clustering
    /\ UNCHANGED surroundings

\* The initialisation paths of the engine, the filter queries on the engine
\* they return, and select_features of the Cluster Engine.
NextInit ==
    \/ \E source \in InitSources : InitRecommender(source)
    \/ \E source \in InitSources : LoadData(source)
    \/ \E source \in InitSources : Main(source)
    \/ \E mood \in MoodInputs : RecommendByMood(mood, DefaultN)
    \/ Consume
    \/ \E data \in Datasets : WriteDataset(data)
    \/ NewClusterer(1, DefaultNClusters, DefaultRandomState)
    \/ SelectFeatures(1)

SpecInit == InitFilter /\ [][NextInit]_vars

\* ----------------------------------------------------------------- cleaning
\* SQL NULL in a table cell.
NULL == NA

\* SQL NULL in a cell of a text column.
NullText == "NULL"

TextColumns == {"track_id", "track_name", "artist"}

Null(c) == IF c \in TextColumns THEN NullText ELSE NULL

\* Tempo is kept in hundredths of a beat per minute (ROUND(AVG(tempo), 2)) and
\* the 0..1 features in ten-thousandths (ROUND(AVG(...), 4)).
TempoScale == 100

FeatureScale == 10000

TempoLow == 50 * TempoScale

TempoHigh == 200 * TempoScale

\* The columns a raw_songs table of the model can have.
SongColumns ==
    {"track_id", "track_name", "artist", "popularity", "tempo", "valence", "energy",
     "danceability", "loudness"}

\* The 0..1 audio features clean_data range-checks, as far as the model's
\* tables have them.
RangeCheckedFeatures == {"valence", "energy", "danceability"}

\* The raw audio feature columns of the model's tables.
AudioFeatureColumns == {"valence", "energy", "danceability", "tempo", "loudness"}

Song(track_id, artist, popularity, tempo, valence, energy, danceability, loudness) ==
    [track_id |-> track_id, track_name |-> "n", artist |-> artist,
     popularity |-> popularity, tempo |-> tempo, valence |-> valence, energy |-> energy,
     danceability |-> danceability, loudness |-> loudness]

\* A table with the given columns: a cell of a column the table does not have
\* holds nothing.
Table(columns, rows) ==
    [exists |-> TRUE, columns |-> columns,
     rows |-> AsTuple([i \in DOMAIN rows |->
                 [c \in SongColumns |-> IF c \in columns THEN rows[i][c] ELSE Null(c)]])]

\* resolve_artist_column: the name of the artist column, "-" for the
\* RuntimeError raised when the table has none.
resolve_artist_column(columns) == IF "artist" \in columns THEN "artist" ELSE "-"

\* Row j comes before row i in ORDER BY order_col DESC within a partition
\* (NULL sorts last; rows with equal keys keep the order of the table scan).
RanksBefore(rows, j, i, order_col) ==
    IF order_col = "popularity"
    THEN \/ rows[j].popularity > rows[i].popularity
         \/ rows[j].popularity = rows[i].popularity /\ j < i
    ELSE j < i

\* Step 1: the rows with ROW_NUMBER() = 1 in their partition by track_id,
\* track_name and artist.
RemoveDuplicates(rows, order_col) ==
    LET SamePartition(i, j) ==
            /\ rows[i].track_id = rows[j].track_id
            /\ rows[i].track_name = rows[j].track_name
            /\ rows[i].artist = rows[j].artist
        first == {i \in DOMAIN rows :
                    \A j \in DOMAIN rows :
                        (j # i /\ SamePartition(i, j)) => RanksBefore(rows, i, j, order_col)}
    IN  SelectSeq(AsTuple([i \in DOMAIN rows |-> [at |-> i, row |-> rows[i]]]),
                  LAMBDA e : e.at \in first)

\* Step 1 of clean_data: what is inserted into the empty cleaned_songs.
InsertFirstOfEach(rows, columns, artist_col) ==
    IF {"track_id", "track_name", artist_col} \subseteq columns
    THEN LET order_col == IF "popularity" \in columns THEN "popularity" ELSE "track_id"
             kept == RemoveDuplicates(rows, order_col)
         IN  AsTuple([k \in DOMAIN kept |-> kept[k].row])
    ELSE rows

\* DELETE FROM cleaned_songs WHERE c < lo OR c > hi: a comparison with NULL is
\* not true, so a row with NULL in c stays.
DeleteOutside(rows, c, lo, hi) ==
    SelectSeq(rows, LAMBDA r : r[c] = NULL \/ (lo <= r[c] /\ r[c] <= hi))

\* ROUND(x, d) of a quotient, in units of the last kept digit: half away from
\* zero.
RoundDiv(num, den) ==
    IF num >= 0 THEN (2 * num + den) \div (2 * den) ELSE -((-2 * num + den) \div (2 * den))

\* SELECT ROUND(AVG(c), d) FROM cleaned_songs WHERE c IS NOT NULL AND c BETWEEN
\* lo AND hi: NULL when no row qualifies.
RoundedMean(rows, c, lo, hi) ==
    LET good == SelectSeq(rows, LAMBDA r : r[c] # NULL /\ lo <= r[c] /\ r[c] <= hi)
    IN  IF good = <<>> THEN NULL
        ELSE RoundDiv(SumSeq(AsTuple([i \in DOMAIN good |-> good[i][c]])), Len(good))

\* UPDATE cleaned_songs SET c = (mean) WHERE c IS NULL.
FillMissing(rows, c, lo, hi) ==
    LET mean == RoundedMean(rows, c, lo, hi)
    IN  AsTuple([i \in DOMAIN rows |->
                    IF rows[i][c] = NULL THEN [rows[i] EXCEPT ![c] = mean] ELSE rows[i]])

\* Steps 2 to 7 of clean_data on the rows inserted by step 1.
CleanRows(inserted, columns, artist_col) ==
    LET step2 == SelectSeq(inserted, LAMBDA r : r[artist_col] # NullText)
        step3 == IF "tempo" \in columns
                 THEN FillMissing(step2, "tempo", TempoLow, TempoHigh) ELSE step2
        step4 == IF "valence" \in columns
                 THEN FillMissing(step3, "valence", 0, FeatureScale) ELSE step3
        step4b == IF "energy" \in columns
                  THEN FillMissing(step4, "energy", 0, FeatureScale) ELSE step4
        step5 == IF "tempo" \in columns
                 THEN DeleteOutside(step4b, "tempo", TempoLow, TempoHigh) ELSE step4b
    IN  SelectSeq(step5,
                  LAMBDA r : ~\E c \in RangeCheckedFeatures \cap columns :
                                  r[c] # NULL /\ (r[c] < 0 \/ r[c] > FeatureScale))

\* A slip in clean_data: cleaned_songs is not dropped, so a run adds its rows
\* to those of the run before.
clean_data_Appending(raw, cleaned) ==
    IF ~raw.exists \/ resolve_artist_column(raw.columns) = "-"
    THEN [status |-> "RuntimeError", cleaned |-> cleaned]
    ELSE LET artist_col == resolve_artist_column(raw.columns)
         IN  [status |-> "ok",
              cleaned |-> [exists |-> TRUE, columns |-> raw.columns,
                           rows |-> CleanRows(cleaned.rows \o
                                        InsertFirstOfEach(raw.rows, raw.columns, artist_col),
                                        raw.columns, artist_col)]]

\* clean_data on a database holding the tables raw and cleaned: the error
\* raised before anything is written, or the cleaned_songs table it leaves.
clean_data(raw, cleaned) ==
    IF ~raw.exists \/ resolve_artist_column(raw.columns) = "-"
    THEN [status |-> "RuntimeError", cleaned |-> cleaned]
    ELSE LET artist_col == resolve_artist_column(raw.columns)
         IN  [status |-> "ok",
              cleaned |-> [exists |-> TRUE, columns |-> raw.columns,
                           rows |-> CleanRows(
                                        InsertFirstOfEach(raw.rows, raw.columns, artist_col),
                                        raw.columns, artist_col)]]

\* The records raw tables are made of: a complete record, two more copies of
\* it (less popular, equally popular), and records with a missing artist, a
\* missing or out-of-range tempo, valence or energy, a missing danceability,
\* loudness or popularity.
RawRows ==
    {Song("t1", "a", 50, 12000, 5000, 5000, 5000, -800),
     Song("t1", "a", 40, 10000, 6000, 5000, 5000, -800),
     Song("t1", "a", 50, 10050, 6000, 5000, 5000, -800),
     Song("t2", NullText, 50, 12000, 5000, 5000, 5000, -800),
     Song("t2", "a", 50, NULL, 5000, 5000, 5000, -800),
     Song("t3", "a", 50, 30000, 5000, 5000, 5000, -800),
     Song("t2", "a", 50, 12000, NULL, 5000, 5000, -800),
     Song("t3", "a", 50, 12000, 15000, 5000, 5000, -800),
     Song("t3", "a", 50, 12000, 5000, NULL, 5000, -800),
     Song("t2", "a", 50, 12000, 5000, 5000, NULL, -800),
     Song("t3", "a", 50, 12000, 5000, 5000, 5000, NULL),
     Song("t2", "a", NULL, 10025, 3333, 5000, 5000, -800),
     Song("t3", "a", 50, 4000, 5000, -1, 5000, -800)}

\* The column sets of raw tables: every column, no popularity (duplicates are
\* ranked by track_id), no track_name (nothing is removed as a duplicate), no
\* tempo and danceability, no artist column.
ColumnSets ==
    {SongColumns, SongColumns \ {"popularity"}, SongColumns \ {"track_name"},
     SongColumns \ {"tempo", "danceability"}, SongColumns \ {"artist"}}

RawTables ==
    {Table(columns, rows) :
        columns \in ColumnSets, rows \in UNION {[1..n -> RawRows] : n \in 0..MaxRaw}}

\* data_generator.py writes the raw_songs table of a new database.
LoadRaw(table) ==
    /\ ~raw_songs.exists
    /\ raw_songs' = table
    /\ UNCHANGED <<cleaned_songs, cleaner, pipeline, requests, cluster_file>>
    /\ UNCHANGED <<engine, call, ret, outside>>

\* cleaner.clean_data()
CleanData ==
    /\ cleaner.runs < MaxRuns
    /\ LET out == clean_data(raw_songs, cleaned_songs)
       IN  /\ cleaned_songs' = out.cleaned
           /\ cleaner' = [runs |-> cleaner.runs + 1, status |-> out.status]
    /\ UNCHANGED <<raw_songs, pipeline, requests, cluster_file>>
    /\ UNCHANGED <<engine, call, ret, outside>>

\* The cleaning stage on every raw table of the model, run up to MaxRuns
\* times.
NextClean ==
    \/ \E table \in RawTables : LoadRaw(table)
    \/ CleanData

SpecClean == InitCluster /\ [][NextClean]_vars

\* ----------------------------------------------------------------- pipeline
\* steps of main(): the names --only takes and the script of each, in order.
steps ==
    <<[name |-> "generate", script |-> "data_generator.py"],
      [name |-> "clean", script |-> "data_cleaner.py"],
      [name |-> "eda", script |-> "exploratory_analysis.py"],
      [name |-> "cluster", script |-> "clustering.py"],
      [name |-> "recommender", script |-> "recommender.py"]>>

StepNames == {steps[i].name : i \in DOMAIN steps}

Scripts == {steps[i].script : i \in DOMAIN steps}

\* mapping[args.only]
ScriptOf(name) == steps[CHOOSE i \in DOMAIN steps : steps[i].name = name].script

\* The scripts main() runs for the given arguments: the one of --only, or the
\* five without those skipped.
PipelineScripts(only, skip_generate, skip_eda) ==
    IF only # "-" THEN <<ScriptOf(only)>>
    ELSE (IF skip_generate THEN <<>> ELSE <<"data_generator.py">>)
         \o <<"data_cleaner.py">>
         \o (IF skip_eda THEN <<>> ELSE <<"exploratory_analysis.py">>)
         \o <<"clustering.py", "recommender.py">>

\* The exit codes a step's process ends with.
ReturnCodes == {0, 1, 2}

\* The sets of scripts found in the project root: all of them, or all but one.
ScriptSets == {Scripts} \cup {Scripts \ {x} : x \in Scripts}

\* python run_pipeline.py [--only name] [--skip-generate] [--skip-eda]
StartPipeline(only, skip_generate, skip_eda, present) ==
    /\ pipeline.state = "idle"
    /\ pipeline' = [NoRun EXCEPT !.state = "running", !.only = only,
                                 !.skip_generate = skip_generate, !.skip_eda = skip_eda,
                                 !.present = present,
                                 !.pipeline_scripts =
                                     PipelineScripts(only, skip_generate, skip_eda),
                                 !.next = 1]
    /\ UNCHANGED <<raw_songs, cleaned_songs, cleaner, requests, cluster_file>>
    /\ UNCHANGED <<engine, call, ret, outside>>

\* The process ends with status 1: an exception reached the top-level handler.
Failed_Pipeline(run, exc) == [run EXCEPT !.state = "failed", !.exc = exc, !.exit_status = 1]

\* run_step up to subprocess.run: the script is looked up and its process
\* started.
StepStarts ==
    /\ pipeline.state = "running"
    /\ pipeline.next <= Len(pipeline.pipeline_scripts)
    /\ LET script == pipeline.pipeline_scripts[pipeline.next]
       IN  pipeline' =
               IF script \notin pipeline.present
               THEN Failed_Pipeline(pipeline, "FileNotFoundError")
               ELSE [pipeline EXCEPT !.state = "in_step",
                                     !.started = Append(@, script)]
    /\ UNCHANGED <<raw_songs, cleaned_songs, cleaner, requests, cluster_file>>
    /\ UNCHANGED <<engine, call, ret, outside>>

\* A slip in run_step: the exit code is not looked at (check=False alone).
AfterStep_Unchecked(run, returncode) ==
    [run EXCEPT !.state = "running", !.next = @ + 1,
                !.returncodes = Append(@, returncode)]

\* run_step after subprocess.run returned: RuntimeError on a non-zero exit
\* code, else on to the next script.
AfterStep(run, returncode) ==
    IF returncode # 0
    THEN Failed_Pipeline([run EXCEPT !.returncodes = Append(@, returncode)], "RuntimeError")
    ELSE [run EXCEPT !.state = "running", !.next = @ + 1,
                     !.returncodes = Append(@, returncode)]

\* The step's process exits.
StepExits(returncode) ==
    /\ pipeline.state = "in_step"
    /\ pipeline' = AfterStep(pipeline, returncode)
    /\ UNCHANGED <<raw_songs, cleaned_songs, cleaner, requests, cluster_file>>
    /\ UNCHANGED <<engine, call, ret, outside>>

\* After the last step: the output summary is written, then the required
\* outputs are verified (the summary just written, and the cleaned dataset,
\* which is there or not).
Summarize(cleaned_csv_exists) ==
    /\ pipeline.state = "running"
    /\ pipeline.next > Len(pipeline.pipeline_scripts)
    /\ pipeline' =
           IF cleaned_csv_exists
           THEN [pipeline EXCEPT !.state = "done", !.summary_written = TRUE,
                                 !.exit_status = 0]
           ELSE Failed_Pipeline([pipeline EXCEPT !.summary_written = TRUE], "RuntimeError")
    /\ UNCHANGED <<raw_songs, cleaned_songs, cleaner, requests, cluster_file>>
    /\ UNCHANGED <<engine, call, ret, outside>>

NextPipeline ==
    \/ \E only \in StepNames \cup {"-"}, skip_generate \in BOOLEAN, skip_eda \in BOOLEAN,
          present \in ScriptSets :
            StartPipeline(only, skip_generate, skip_eda, present)
    \/ StepStarts
    \/ \E returncode \in ReturnCodes : StepExits(returncode)
    \/ \E cleaned_csv_exists \in BOOLEAN : Summarize(cleaned_csv_exists)

SpecPipeline == InitCluster /\ [][NextPipeline]_vars

\* --------------------------------------------------------------- API server
\* The cleaned_songs tables the server is started on.
ServerSources ==
    {Source(<<TrackA, WithLoudness(TrackB, -5), WithLoudness(TrackC, -6)>>, {}),
     Source(<<TrackA, WithLoudness(TrackB, -5)>>, {})}

\* The count parameters of the requests.
Counts == 1..MaxCount

\* The song_id parameters: a track of the catalog, an unknown id, and none.
RequestSongs == {TrackIds[1], UnknownId, ""}

RequestMethods == {"knn", "cosine", "euclidean", "manhattan"}

\* recommend_similar up to old_n = rec.n_recommendations: the parameters are
\* checked (400 for a missing song_id or an unknown method) and the engine's
\* n_recommendations is read.
Arrive(r, song_id, method, count) ==
    /\ df.loaded
    /\ requests[r].pc = "idle"
    /\ requests' =
           [requests EXCEPT ![r] =
               IF song_id = "" \/ method \notin {"knn", "cosine", "euclidean"}
               THEN [NoRequest EXCEPT !.pc = "done", !.song_id = song_id,
                                      !.method = method, !.count = count, !.status = 400]
               ELSE [NoRequest EXCEPT !.pc = "set", !.song_id = song_id,
                                      !.method = method, !.count = count,
                                      !.old_n = n_recommendations]]
    /\ UNCHANGED <<raw_songs, cleaned_songs, cleaner, pipeline, cluster_file>>
    /\ UNCHANGED <<engine, call, ret, outside>>

\* rec.n_recommendations = count
CountSet(n, count) == count

SetCount(r) ==
    /\ requests[r].pc = "set"
    /\ n_recommendations' = CountSet(n_recommendations, requests[r].count)
    /\ requests' = [requests EXCEPT ![r].pc = "query"]
    /\ UNCHANGED <<df, feature_matrix_scaled, knn_model>>
    /\ UNCHANGED <<raw_songs, cleaned_songs, cleaner, pipeline, cluster_file>>
    /\ UNCHANGED <<call, ret, outside>>

\* results = rec.recommend_by_song(song_id, method=method) on the shared
\* engine as it is when the call runs; ValueError gives the 404 response.
Query(r) ==
    /\ requests[r].pc = "query"
    /\ \E result \in RecommendBySongOf(Self, requests[r].song_id, requests[r].method) :
           requests' =
               [requests EXCEPT ![r] =
                   IF result.kind = "error"
                   THEN [@ EXCEPT !.pc = "restore", !.status = 404]
                   ELSE [@ EXCEPT !.pc = "restore", !.status = 200,
                                  !.n_rows = Len(result.rows)]]
    /\ UNCHANGED <<raw_songs, cleaned_songs, cleaner, pipeline, cluster_file>>
    /\ UNCHANGED <<engine, call, ret, outside>>

\* finally: rec.n_recommendations = old_n, and the response is sent.
Restore(r) ==
    /\ requests[r].pc = "restore"
    /\ n_recommendations' = requests[r].old_n
    /\ requests' = [requests EXCEPT ![r].pc = "done"]
    /\ UNCHANGED <<df, feature_matrix_scaled, knn_model>>
    /\ UNCHANGED <<raw_songs, cleaned_songs, cleaner, pipeline, cluster_file>>
    /\ UNCHANGED <<call, ret, outside>>

\* The client has its response; the worker thread takes the next request.
Release(r) ==
    /\ requests[r].pc = "done"
    /\ requests' = [requests EXCEPT ![r] = NoRequest]
    /\ UNCHANGED <<raw_songs, cleaned_songs, cleaner, pipeline, cluster_file>>
    /\ UNCHANGED <<engine, call, ret, outside>>

\* The API server: the engine is built once at start-up, then the request
\* threads run recommend_similar against it, their steps interleaved.
NextServer ==
    \/ \E source \in ServerSources : InitRecommender(source)
    \/ \E r \in Slots, song_id \in RequestSongs, method \in RequestMethods,
          count \in Counts : Arrive(r, song_id, method, count)
    \/ \E r \in Slots : SetCount(r)
    \/ \E r \in Slots : Query(r)
    \/ \E r \in Slots : Restore(r)
    \/ \E r \in Slots : Release(r)

SpecServer == InitCluster /\ [][NextServer]_vars

\* ------------------------------------------------------------------ claims
SongCall == call.op = "recommend_by_song"

\* The last call was recommend_by_song with a seed of the catalog and one of
\* the three methods.
ValidSongCall ==
    /\ SongCall
    /\ call.method \in {"knn", "cosine", "euclidean"}
    /\ df.loaded
    /\ \E i \in DOMAIN df.rows : df.rows[i].track_id = call.song_id

ScoreDefined(s) == ~s.nan

\* s >= t on scores; a comparison with NaN is false.
ScoreGeq(s, t) == ~s.nan /\ ~t.nan /\ s.num * t.den >= t.num * s.den

\* C1: the rows recommend_by_song returns never include the seed's own
\* track_id, for each of the three methods.
C1_SeedNeverReturned ==
    (ValidSongCall /\ ret.kind = "rows")
        => \A k \in DOMAIN ret.rows : ret.rows[k].track_id # call.song_id

\* C2: every similarity_score recommend_by_song returns is a defined number
\* (not NaN) with 0 <= score <= 1.
C2_ScoresInUnitInterval ==
    (ValidSongCall /\ ret.kind = "rows")
        => \A k \in DOMAIN ret.rows :
              /\ ScoreDefined(ret.rows[k].similarity_score)
              /\ 0 <= ret.rows[k].similarity_score.num
              /\ ret.rows[k].similarity_score.num <= ret.rows[k].similarity_score.den

\* C3: recommend_by_song returns exactly min(n, catalog_size - 1) rows, n the
\* requested count, whatever neighbour count the structure was built with.
C3_ExactCount ==
    (ValidSongCall /\ ret.kind = "rows")
        => Len(ret.rows) = Min(n_recommendations, Len(df.rows) - 1)

\* C4: the rows recommend_by_song returns are ordered by similarity:
\* similarity_score is non-increasing from the first row to the last.
C4_ScoresNonIncreasing ==
    (ValidSongCall /\ ret.kind = "rows")
        => \A k \in 1..(Len(ret.rows) - 1) :
              ScoreGeq(ret.rows[k].similarity_score, ret.rows[k + 1].similarity_score)

\* The threshold comparisons of each mood rule and tempo rule, written out.
MoodRuleHolds(mood, row) ==
    CASE mood = "happy"     -> row.valence >= 6 /\ row.energy >= 5
      [] mood = "sad"       -> row.valence <= 4 /\ row.energy <= 4
      [] mood = "energetic" -> row.energy >= 7 /\ row.danceability >= 5
      [] mood = "calm"      -> row.energy <= 4 /\ row.acousticness >= 5
      [] mood = "dark"      -> row.valence <= 3 /\ row.energy >= 6
      [] mood = "romantic"  -> row.valence >= 5 /\ row.acousticness >= 4 /\ row.energy <= 6
      [] mood = "angry"     -> row.energy >= 7 /\ row.valence <= 4
      [] mood = "party"     -> row.danceability >= 7 /\ row.energy >= 6 /\ row.valence >= 5
      [] OTHER              -> FALSE

TempoRuleHolds(tempo, row) ==
    CASE tempo = "slow"   -> row.tempo <= 100
      [] tempo = "medium" -> 100 <= row.tempo /\ row.tempo <= 120
      [] tempo = "fast"   -> row.tempo >= 120
      [] OTHER            -> FALSE

FilterModes == {"recommend_by_mood", "recommend_by_tempo", "recommend_by_mood_and_tempo"}

UsesMood == call.op \in {"recommend_by_mood", "recommend_by_mood_and_tempo"}

UsesTempo == call.op \in {"recommend_by_tempo", "recommend_by_mood_and_tempo"}

\* The row satisfies the rule(s) the last filter-based call named.
Qualifies(row) ==
    /\ UsesMood => MoodRuleHolds(call.mood, row)
    /\ UsesTempo => TempoRuleHolds(call.tempo, row)

\* The last call was a filter-based query with known rule names on a loaded
\* catalog.
ValidFilterCall ==
    /\ call.op \in FilterModes
    /\ df.loaded
    /\ UsesMood => call.mood \in MoodNames
    /\ UsesTempo => call.tempo \in TempoNames

\* C5: every row recommend_by_mood, recommend_by_tempo and
\* recommend_by_mood_and_tempo return satisfies every threshold comparison of
\* the named rule(s) (the combined mode: of both, the logical AND), and a
\* valid call returns a frame, empty when no row satisfies the rules, without
\* raising.
C5_RowsSatisfyRules ==
    /\ (call.op \in FilterModes /\ ret.kind = "rows")
            => \A k \in DOMAIN ret.rows : Qualifies(df.rows[ret.rows[k].idx])
    /\ ValidFilterCall => ret.kind = "rows"
    /\ (ValidFilterCall /\ \A i \in DOMAIN df.rows : ~Qualifies(df.rows[i]))
            => ret.rows = <<>>

\* A combined query returned rows from a catalog in which another row passes
\* the mood rule but not the tempo rule.
C5_Witness ==
    /\ call.op = "recommend_by_mood_and_tempo"
    /\ ret.kind = "rows"
    /\ ret.rows # <<>>
    /\ \E i \in DOMAIN df.rows :
            MoodRuleHolds(call.mood, df.rows[i]) /\ ~TempoRuleHolds(call.tempo, df.rows[i])

\* The catalog indices of the rows that satisfy the named rule(s), in catalog
\* order.
QualifyingIndices ==
    SelectSeq([i \in DOMAIN df.rows |-> i], LAMBDA i : Qualifies(df.rows[i]))

\* C6: the result of a filter-based query is exactly the first min(n, m) of
\* the m rows that satisfy the mask, in catalog order.
C6_FirstRowsInCatalogOrder ==
    ValidFilterCall =>
        /\ ret.kind = "rows"
        /\ [k \in DOMAIN ret.rows |-> ret.rows[k].idx]
              = SubSeq(QualifyingIndices, 1, Min(call.n_songs, Len(QualifyingIndices)))

\* A query for one song on a catalog whose first row does not qualify and two
\* later rows do: the first of the two is returned.
C6_Witness ==
    /\ ValidFilterCall
    /\ call.n_songs = 1
    /\ Len(QualifyingIndices) >= 2
    /\ QualifyingIndices[1] > 1
    /\ Len(ret.rows) = 1
    /\ ret.rows[1].idx = QualifyingIndices[1]

\* C7: the tempo mask is true exactly for the rows with tempo <= 100 (slow),
\* 100 <= tempo <= 120 (medium), tempo >= 120 (fast); a track with tempo 100
\* satisfies slow and medium, one with tempo 120 medium and fast.
C7_TempoMaskExact ==
    /\ (call.op = "_apply_tempo_filter" /\ ret.kind = "mask")
            => /\ DOMAIN ret.mask = DOMAIN df.rows
               /\ \A i \in DOMAIN df.rows :
                      ret.mask[i] <=> TempoRuleHolds(call.tempo, df.rows[i])
    /\ df.loaded =>
            \A i \in DOMAIN df.rows :
                /\ df.rows[i].tempo = 100 =>
                        /\ _apply_tempo_filter("slow").mask[i]
                        /\ _apply_tempo_filter("medium").mask[i]
                /\ df.rows[i].tempo = 120 =>
                        /\ _apply_tempo_filter("medium").mask[i]
                        /\ _apply_tempo_filter("fast").mask[i]

\* The mask of "medium" on a catalog with a track at 100, one at 120 and one
\* outside the band.
C7_Witness ==
    /\ call.op = "_apply_tempo_filter"
    /\ call.tempo = "medium"
    /\ ret.kind = "mask"
    /\ \E i, j, k \in DOMAIN df.rows :
            /\ df.rows[i].tempo = 100 /\ ret.mask[i]
            /\ df.rows[j].tempo = 120 /\ ret.mask[j]
            /\ ~ret.mask[k]

\* The last call was a filter-based query on a loaded catalog with a mood or
\* tempo name outside the rule tables.
UnknownNameCall ==
    /\ call.op \in FilterModes
    /\ df.loaded
    /\ \/ UsesMood /\ call.mood \notin MoodNames
       \/ UsesTempo /\ call.tempo \notin TempoNames

\* C8: with a catalog loaded, a filter-based query with an unknown mood or
\* tempo name (either of the two in the combined mode) raises an error whose
\* message names the valid set, returns no rows, and leaves the engine
\* unchanged.
C8_UnknownNameRaises ==
    /\ [](UnknownNameCall =>
            /\ ret.kind = "error"
            /\ ret.rows = <<>>
            /\ \/ UsesMood /\ call.mood \notin MoodNames /\ ret.valid = MoodNames
               \/ UsesTempo /\ call.tempo \notin TempoNames /\ ret.valid = TempoNames)
    /\ [][call'.op \in FilterModes => engine' = engine]_vars

\* The combined mode called with a known mood and an unknown tempo.
C8_Witness ==
    /\ UnknownNameCall
    /\ call.op = "recommend_by_mood_and_tempo"
    /\ call.mood \in MoodNames
    /\ ret.kind = "error"

FullyBuilt == df.loaded /\ feature_matrix_scaled.set /\ knn_model.built

SeedPresent == \E i \in DOMAIN df.rows : df.rows[i].track_id = call.song_id

\* C9: on a fully built engine recommend_by_song with a seed id absent from
\* the catalog fails with a not-found error, and with a present seed and a
\* method other than knn/cosine/euclidean with an unknown-method error; no
\* rows are returned and the engine is unchanged.
C9_SongErrors ==
    /\ []((SongCall /\ FullyBuilt /\ ~SeedPresent) =>
            /\ ret.kind = "error"
            /\ ret.msg = "not found in dataset"
            /\ ret.rows = <<>>)
    /\ []((SongCall /\ FullyBuilt /\ SeedPresent
                /\ call.method \notin {"knn", "cosine", "euclidean"}) =>
            /\ ret.kind = "error"
            /\ ret.msg = "Unknown method"
            /\ ret.rows = <<>>)
    /\ [][call'.op = "recommend_by_song" => engine' = engine]_vars

\* A present seed with an unknown method, on a fully built engine.
C9_Witness ==
    /\ SongCall
    /\ FullyBuilt
    /\ SeedPresent
    /\ call.method = "manhattan"
    /\ ret.kind = "error"

QueryOps == FilterModes \cup {"recommend_by_song", "_apply_mood_filter", "_apply_tempo_filter"}

\* C10: while no catalog is loaded each query mode and both filter helpers
\* raise; while the scaled matrix is absent build_knn_model and
\* recommend_by_song raise; while the neighbour structure is unbuilt
\* recommend_by_song with "knn" raises; no query returns rows from an engine
\* whose prerequisites are not populated.
C10_PrerequisitesGuarded ==
    /\ (call.op \in QueryOps /\ ~df.loaded) => ret.kind = "error"
    /\ (call.op \in {"build_knn_model", "recommend_by_song"} /\ ~feature_matrix_scaled.set)
            => ret.kind = "error"
    /\ (SongCall /\ call.method = "knn" /\ ~knn_model.built) => ret.kind = "error"
    /\ knn_model.built => feature_matrix_scaled.set
    /\ feature_matrix_scaled.set => df.loaded
    /\ ret.kind \in {"rows", "mask"} => df.loaded
    /\ (SongCall /\ ret.kind = "rows") =>
            /\ feature_matrix_scaled.set
            /\ call.method = "knn" => knn_model.built

\* recommend_by_song with "knn" raised on an engine whose catalog and scaled
\* matrix are there and whose neighbour structure is not.
C10_Witness ==
    /\ SongCall
    /\ call.method = "knn"
    /\ df.loaded
    /\ feature_matrix_scaled.set
    /\ ~knn_model.built
    /\ ret.kind = "error"

\* Every query of the four modes, with its arguments.
QueryCalls ==
    {[NoCall EXCEPT !.op = "recommend_by_mood", !.mood = m, !.n_songs = n] :
            m \in MoodInputs, n \in 0..MaxSongs}
    \cup {[NoCall EXCEPT !.op = "recommend_by_tempo", !.tempo = t, !.n_songs = n] :
            t \in TempoInputs, n \in 0..MaxSongs}
    \cup {[NoCall EXCEPT !.op = "recommend_by_mood_and_tempo", !.mood = m, !.tempo = t,
                         !.n_songs = n] :
            m \in MoodInputs, t \in TempoInputs, n \in 0..MaxSongs}
    \cup {[NoCall EXCEPT !.op = "recommend_by_song", !.song_id = s, !.method = m] :
            s \in SongInputs, m \in MethodInputs}

\* The results the engine, as it is now, can give to a query.
Answers(q) ==
    CASE q.op = "recommend_by_mood" -> {recommend_by_mood(q.mood, q.n_songs)}
      [] q.op = "recommend_by_tempo" -> {recommend_by_tempo(q.tempo, q.n_songs)}
      [] q.op = "recommend_by_mood_and_tempo" ->
            {recommend_by_mood_and_tempo(q.mood, q.tempo, q.n_songs)}
      [] q.op = "recommend_by_song" -> recommend_by_song(q.song_id, q.method)

AllAnswers == [q \in QueryCalls |-> Answers(q)]

\* The bundle on disk is the one save_model writes for the engine as it is.
SavedAsIs ==
    /\ model_file.saved
    /\ model_file.knn_model = knn_model
    /\ model_file.n_recommendations = n_recommendations

ClusterColumn(i) == [r \in DOMAIN outputs[i].df_features |-> outputs[i].df_features[r].cluster]

FitReturned(i) == outputs[i].op = "fit" /\ outputs[i].status = "ok"

\* C12: two clusterers constructed with the same n_clusters and the same
\* random_state and fitted on the same dataset with auto_optimize=False give
\* every row the same cluster id.
C12_Reproducible ==
    \A i, j \in Instances :
        (/\ FitReturned(i) /\ FitReturned(j)
         /\ ~outputs[i].auto_optimize /\ ~outputs[j].auto_optimize
         /\ outputs[i].df = outputs[j].df
         /\ outputs[i].n_clusters = outputs[j].n_clusters
         /\ outputs[i].random_state = outputs[j].random_state)
        => ClusterColumn(i) = ClusterColumn(j)

\* Both clusterers have been fitted with the same parameters on a dataset
\* k-means can label in more than one way.
C12_Witness ==
    /\ FitReturned(1) /\ FitReturned(2)
    /\ outputs[1].n_clusters = outputs[2].n_clusters
    /\ outputs[1].random_state = outputs[2].random_state
    /\ Cardinality(KMeansLabelings(outputs[1].X_scaled, outputs[1].n_clusters)) > 1

\* The input rows with a value in each of the five clustering features, in
\* input order.
UsableRows(data) ==
    SelectSeq(data, LAMBDA t : /\ t.valence # NA /\ t.energy # NA /\ t.danceability # NA
                               /\ t.tempo # NA /\ t.acousticness # NA)

SameTrack(r, t) ==
    /\ r.valence = t.valence /\ r.energy = t.energy /\ r.danceability = t.danceability
    /\ r.tempo = t.tempo /\ r.acousticness = t.acousticness
    /\ r.instrumentalness = t.instrumentalness /\ r.liveness = t.liveness
    /\ r.speechiness = t.speechiness /\ r.loudness = t.loudness

\* C13: the frame a successful fit returns holds exactly the input rows with no
\* missing value in the five clustering features, in order; every row carries
\* a cluster id in 0..n_clusters-1; and row r of the returned scaled matrix is
\* the scaled feature vector of row r of the frame.
C13_FitOutput ==
    \A i \in Instances :
        FitReturned(i) =>
            LET o == outputs[i]
                kept == UsableRows(o.df)
            IN  /\ Len(o.df_features) = Len(kept)
                /\ \A r \in DOMAIN kept : SameTrack(o.df_features[r], kept[r])
                /\ \A r \in DOMAIN o.df_features :
                       o.df_features[r].cluster \in 0..(o.n_clusters - 1)
                /\ o.n_clusters = clusterers[i].n_clusters
                /\ o.X_scaled = StandardScaler_fit_transform(FeatureValues(o.df_features))
                /\ ClusterColumn(i) = clusterers[i].kmeans.labels_

\* A fit has returned a frame with fewer rows than the dataset.
C13_Witness ==
    /\ FitReturned(1)
    /\ 0 < Len(outputs[1].df_features)
    /\ Len(outputs[1].df_features) < Len(outputs[1].df)

\* The rule table of the claim, on a mean vector f: the comparisons of rule n.
Above(x, t) == x.num > t * x.den

Below(x, t) == x.num < t * x.den

RuleMatches(n, f) ==
    CASE n = 1 -> Above(f.energy, 6) /\ Above(f.valence, 6) /\ Above(f.danceability, 6)
      [] n = 2 -> Above(f.energy, 6) /\ Below(f.valence, 4)
      [] n = 3 -> Below(f.energy, 4) /\ Above(f.valence, 6)
      [] n = 4 -> Below(f.energy, 4) /\ Below(f.valence, 4)
      [] n = 5 -> Above(f.danceability, 7)
      [] n = 6 -> Above(f.acousticness, 6)
      [] n = 7 -> TRUE

RuleLabels ==
    <<"Energetic & Happy", "Intense & Dark", "Calm & Peaceful", "Melancholic",
      "Party & Dance", "Acoustic & Mellow", "Balanced & Versatile">>

FirstMatch(f) ==
    CHOOSE n \in 1..7 : RuleMatches(n, f) /\ \A m \in 1..(n - 1) : ~RuleMatches(m, f)

\* C14: _interpret_cluster returns, for every mean vector, the label of the
\* first rule of the ordered table that matches, all comparisons strict.
C14_InterpretRule ==
    \A i \in Instances :
        outputs[i].op = "_interpret_cluster" =>
            /\ outputs[i].status = "ok"
            /\ outputs[i].label = RuleLabels[FirstMatch(outputs[i].features)]

\* A vector with energy, valence and danceability exactly 0.6 and
\* acousticness above 0.6 has been labelled by rule 6.
C14_Witness ==
    /\ outputs[1].op = "_interpret_cluster"
    /\ outputs[1].features.energy = Half(12)
    /\ outputs[1].features.valence = Half(12)
    /\ outputs[1].features.danceability = Half(12)
    /\ outputs[1].label = "Acoustic & Mellow"

\* The step is a call of analyze_clusters on clusterer i.
AnalyzeStep(i) ==
    /\ outputs'[i].op = "analyze_clusters"
    /\ <<outputs[i], clusterers[i]>> # <<outputs'[i], clusterers'[i]>>

\* C15: analyze_clusters called on a clusterer whose kmeans is None fails and
\* leaves cluster_labels unchanged, and a clusterer is analyzed only after a
\* successful fit of its own.
C15_AnalyzeNeedsFit ==
    [][\A i \in Instances :
          /\ (AnalyzeStep(i) /\ clusterers[i].kmeans = NoKMeans) =>
                /\ outputs'[i].status = "error"
                /\ clusterers'[i].cluster_labels = clusterers[i].cluster_labels
          /\ clusterers'[i].analyzed => clusterers'[i].kmeans.state = "fitted"]_vars

\* Clusterer i has just analyzed the frame its own fit returned.
AnalyzedOwnFit(i) ==
    /\ outputs[i].op = "analyze_clusters"
    /\ clusterers[i].kmeans.state = "fitted"
    /\ [r \in DOMAIN outputs[i].df_clustered |-> outputs[i].df_clustered[r].cluster]
          = clusterers[i].kmeans.labels_

Searched(i) ==
    /\ outputs[i].op \in {"find_optimal_clusters", "fit"}
    /\ outputs[i].search # NoSearch
    /\ ~outputs[i].search.raised

\* C17: a search scores every candidate k = 2..max_clusters (2..10 when fit
\* makes it) with both metrics and picks the smallest k whose silhouette
\* score is largest, whatever the Davies-Bouldin scores; fit with
\* auto_optimize sets n_clusters to that k and fits the final k-means at it.
C17_SilhouettePicksK ==
    \A i \in Instances :
        Searched(i) =>
            LET o == outputs[i]
                sil == o.search.silhouette_scores
                k == o.search.optimal_k
            IN  /\ o.search.K_range = 2..o.search.max_clusters
                /\ DOMAIN sil = o.search.K_range
                /\ DOMAIN o.search.davies_bouldin_scores = o.search.K_range
                /\ k \in o.search.K_range
                /\ \A j \in o.search.K_range :
                       sil[j] < sil[k] \/ (sil[j] = sil[k] /\ k <= j)
                /\ o.op = "fit" =>
                       /\ o.auto_optimize
                       /\ o.search.max_clusters = DefaultMaxClusters
                       /\ clusterers[i].n_clusters = k
                       /\ clusterers[i].kmeans.n_clusters = k
                       /\ o.status = "ok" =>
                              /\ o.n_clusters = k
                              /\ clusterers[i].kmeans.state = "fitted"

\* fit with auto_optimize has returned after a search in which the second and
\* the last candidate shared the largest silhouette score and the
\* Davies-Bouldin scores were lowest elsewhere.
C17_Witness ==
    /\ FitReturned(1)
    /\ outputs[1].auto_optimize
    /\ outputs[1].search.silhouette_scores[3] = 2
    /\ outputs[1].search.silhouette_scores[DefaultMaxClusters] = 2
    /\ outputs[1].search.silhouette_scores[2] = 1
    /\ outputs[1].search.davies_bouldin_scores[2] = 2
    /\ outputs[1].search.davies_bouldin_scores[3] = 1
    /\ clusterers[1].kmeans.n_clusters = 3

\* The last call was an initialisation path run on a table with every raw
\* feature column and at least one complete row.
InitPathRun ==
    /\ call.op \in {"init_recommender", "load_data", "main"}
    /\ MissingColumns(call.source) = {}
    /\ CleanFrame(call.source.tracks) # <<>>

\* The normalized column of a constant raw column is 0 in every row of rows.
ZeroWhereConstant(rows, raw, normalized) ==
    ConstantColumn(rows, raw) =>
        \A r \in DOMAIN rows : rows[r][normalized] = [num |-> 0, den |-> 1]

\* C18: wherever tempo_normalized or loudness_normalized is derived (the API
\* server's init_recommender, the CLI's load_data, main of recommender.py,
\* select_features), a column with the same value in every row gives 0 in
\* every row of the normalized column, drops no row and raises nothing.
C18_ZeroRangeIsZero ==
    /\ (/\ InitPathRun
        /\ \/ ConstantColumn(CleanFrame(call.source.tracks), "tempo")
           \/ ConstantColumn(CleanFrame(call.source.tracks), "loudness")) =>
            /\ ret.kind # "error"
            /\ df.loaded
            /\ Len(df.rows) = Len(CleanFrame(call.source.tracks))
            /\ ZeroWhereConstant(df.rows, "tempo", "tempo_normalized")
            /\ ZeroWhereConstant(df.rows, "loudness", "loudness_normalized")
    /\ \A i \in Instances :
          (/\ outputs[i].op = "select_features"
           /\ UsableRows(outputs[i].df) # <<>>
           /\ ConstantColumn(UsableRows(outputs[i].df), "tempo")) =>
              /\ outputs[i].status = "ok"
              /\ Len(outputs[i].df_features) = Len(UsableRows(outputs[i].df))
              /\ \A r \in DOMAIN outputs[i].df_features :
                     /\ ~outputs[i].df_features[r].tempo_normalized.nan
                     /\ outputs[i].df_features[r].tempo_normalized.num = 0

\* C19: init_recommender and load_data, given a table without one of the raw
\* feature columns, raise the error of a check of the columns and return no
\* engine.
C19_MissingColumnRejected ==
    (/\ call.op \in {"init_recommender", "load_data"}
     /\ MissingColumns(call.source) # {}) =>
        /\ ret.kind = "error"
        /\ ret.exc = "ValueError"
        /\ ret.msg = "Dataset is missing required columns"
        /\ ret.valid = MissingColumns(call.source)
        /\ df = Unloaded /\ feature_matrix_scaled = NoMatrix /\ knn_model = NoKnn

QueryModes == FilterModes \cup {"recommend_by_song"}

\* C20: a query of any of the four modes, returning or raising, leaves the
\* catalog, the scaled matrix with its standardization, the neighbour
\* structure and n_recommendations as they were, and what it returns is a
\* result of that unchanged engine (so the same query gets it again).
C20_QueriesReadOnly ==
    [][(call.op = "none" /\ call'.op \in QueryModes) =>
          /\ engine' = engine
          /\ ret' \in Answers(call')]_vars

\* A combined query has returned rows from an engine with its scaled matrix
\* and neighbour structure built.
C20_Witness ==
    /\ call.op = "recommend_by_mood_and_tempo"
    /\ ret.kind = "rows"
    /\ Len(ret.rows) > 0
    /\ feature_matrix_scaled.set
    /\ knn_model.built

\* The similarity queries that do not use the neighbour structure.
VectorCalls == {q \in QueryCalls : q.op = "recommend_by_song" /\ q.method \in {"cosine", "euclidean"}}

\* C21: build_knn_model(k) on an engine with catalog and scaled matrix
\* replaces only the neighbour structure, whose neighbour count becomes k:
\* the catalog, the scaled matrix (with its standardization) and
\* n_recommendations stay, and every cosine and euclidean query has the same
\* results after the rebuild as before it.
C21_RebuildKeepsRest ==
    [][(call.op = "none" /\ call'.op = "build_knn_model"
            /\ df.loaded /\ feature_matrix_scaled.set) =>
          /\ ret'.kind = "none"
          /\ knn_model' = [built |-> TRUE, n_neighbors |-> call'.n_neighbors]
          /\ df' = df
          /\ feature_matrix_scaled' = feature_matrix_scaled
          /\ n_recommendations' = n_recommendations
          /\ \A q \in VectorCalls :
                RecommendBySongOf(Self', q.song_id, q.method)
                    = RecommendBySongOf(Self, q.song_id, q.method)]_vars

\* A neighbour structure with the largest count has been built on an engine
\* holding a catalog of several tracks and its scaled matrix.
C21_Witness ==
    /\ call.op = "build_knn_model"
    /\ call.n_neighbors = MaxK
    /\ knn_model = [built |-> TRUE, n_neighbors |-> MaxK]
    /\ feature_matrix_scaled.set
    /\ Len(df.rows) >= 2

\* The last call on clusterer i was fit without the search, on a dataset of
\* which select_features keeps at least one row and fewer rows than the
\* configured number of clusters.
SmallFit(i) ==
    /\ outputs[i].op = "fit"
    /\ ~outputs[i].auto_optimize
    /\ Len(select_features(outputs[i].df).X) >= 1
    /\ Len(select_features(outputs[i].df).X) < outputs[i].n_clusters

\* C22: fit(df, auto_optimize=False) on a dataset with fewer usable rows than
\* n_clusters raises nothing and returns a frame in which every usable row
\* carries a cluster id.
C22_SmallDatasetFits ==
    \A i \in Instances :
        SmallFit(i) =>
            /\ outputs[i].status = "ok"
            /\ Len(outputs[i].df_features) = Len(select_features(outputs[i].df).X)
            /\ \A r \in DOMAIN outputs[i].df_features :
                   outputs[i].df_features[r].cluster \in 0..(outputs[i].n_clusters - 1)

\* clean_data has just run without error on the raw_songs table.
Cleaned == cleaner.runs >= 1 /\ cleaner.status = "ok"

\* C23: after clean_data, every row of cleaned_songs has an artist, a tempo
\* that is not NULL and lies in 50..200, and a valence and an energy that are
\* not NULL and lie in 0..1 (each for the columns raw_songs has).
C23_CleanedRowsValid ==
    Cleaned =>
        \A i \in DOMAIN cleaned_songs.rows :
            LET r == cleaned_songs.rows[i]
                columns == raw_songs.columns
            IN  /\ r.artist # NullText
                /\ "tempo" \in columns =>
                       r.tempo # NULL /\ TempoLow <= r.tempo /\ r.tempo <= TempoHigh
                /\ \A c \in {"valence", "energy"} \cap columns :
                       r[c] # NULL /\ 0 <= r[c] /\ r[c] <= FeatureScale

\* C24: after clean_data, no row of cleaned_songs has NULL in a raw audio
\* feature column that raw_songs has.
C24_FeatureComplete ==
    Cleaned =>
        \A i \in DOMAIN cleaned_songs.rows :
            \A c \in AudioFeatureColumns \cap raw_songs.columns :
                cleaned_songs.rows[i][c] # NULL

\* C25: every run of clean_data, the first and a repeated one, leaves in
\* cleaned_songs the rows one run on the raw table alone leaves, and leaves
\* raw_songs as it was.
C25_CleanIdempotent ==
    [][cleaner'.runs = cleaner.runs + 1 =>
          /\ raw_songs' = raw_songs
          /\ cleaned_songs' = clean_data(raw_songs, NoTable).cleaned
          /\ (cleaner.status = "ok" => cleaned_songs' = cleaned_songs)]_vars

\* clean_data has run twice on a table from which it removes a duplicate and
\* in which it fills a missing value.
C25_Witness ==
    /\ cleaner = [runs |-> MaxRuns, status |-> "ok"]
    /\ Len(raw_songs.rows) = MaxRaw
    /\ Len(cleaned_songs.rows) = 2
    /\ \E i \in DOMAIN raw_songs.rows : raw_songs.rows[i].tempo = NULL

\* The scripts in the pipeline's order.
ScriptOrder == AsTuple([i \in DOMAIN steps |-> steps[i].script])

\* The scripts selected by the run's arguments, in the pipeline's order.
SelectedInOrder ==
    SelectSeq(ScriptOrder,
              LAMBDA x : IF pipeline.only # "-" THEN x = ScriptOf(pipeline.only)
                         ELSE /\ ~(pipeline.skip_generate /\ x = "data_generator.py")
                              /\ ~(pipeline.skip_eda /\ x = "exploratory_analysis.py"))

\* Some step of the run has exited with a non-zero code.
StepFailed == \E i \in DOMAIN pipeline.returncodes : pipeline.returncodes[i] # 0

\* C26: the steps started so far are the first of the selected scripts in
\* the order data_generator, data_cleaner, exploratory_analysis, clustering,
\* recommender; every step but the last started has exited with code 0; and
\* once a step has exited non-zero, it is and stays the last one started, the
\* output summary is not written, and the process has ended with exit status 1.
C26_PipelineOrder ==
    /\ Len(pipeline.started) <= Len(SelectedInOrder)
    /\ pipeline.started = SubSeq(SelectedInOrder, 1, Len(pipeline.started))
    /\ Len(pipeline.returncodes) \in {Len(pipeline.started), Len(pipeline.started) - 1}
    /\ \A i \in 1..(Len(pipeline.started) - 1) : pipeline.returncodes[i] = 0
    /\ StepFailed =>
           /\ Len(pipeline.returncodes) = Len(pipeline.started)
           /\ pipeline.state = "failed"
           /\ ~pipeline.summary_written
           /\ pipeline.exit_status = 1

\* The third step of a full run has exited with code 2 after two steps that
\* exited with code 0.
C26_Witness ==
    /\ pipeline.started = <<"data_generator.py", "data_cleaner.py", "exploratory_analysis.py">>
    /\ pipeline.returncodes = <<0, 0, 2>>
    /\ pipeline.state = "failed"

\* C27: every /api/recommendations/similar response that succeeds holds at
\* most as many rows as its own request asked for, whatever other requests
\* are being handled at the same time.
C27_OwnCountBounds ==
    \A r \in Slots :
        (requests[r].pc \in {"restore", "done"} /\ requests[r].status = 200) =>
            requests[r].n_rows <= requests[r].count

\* No request is being handled.
Quiescent == \A r \in Slots : requests[r].pc \in {"idle", "done"}

\* C28: when no request is in flight, the shared engine's n_recommendations
\* is the value set at server start-up.
C28_CountRestored ==
    (df.loaded /\ Quiescent) => n_recommendations = ServerN

\* C29: after analyze_clusters has returned on the frame of a clusterer
\* fitted with k clusters, the keys of cluster_labels are exactly 0..k-1.
C29_LabelKeysAreClusterIds ==
    \A i \in Instances :
        (AnalyzedOwnFit(i) /\ outputs[i].status = "ok"
            /\ clusterers[i].kmeans.n_clusters = clusterers[i].n_clusters) =>
                DOMAIN clusterers[i].cluster_labels = 0..(clusterers[i].n_clusters - 1)

\* load_model has just returned on clusterer i.
LoadStep(i) ==
    /\ outputs'[i].op = "load_model"
    /\ <<outputs[i], clusterers[i]>> # <<outputs'[i], clusterers'[i]>>

\* C30: a clusterer loaded from the bundle a fitted first clusterer has
\* just saved has the first one's n_clusters, feature_names, cluster_labels,
\* fitted k-means model and random seed.
C30_BundleRoundTrip ==
    [][(/\ LoadStep(2)
        /\ clusterers[1].kmeans.state = "fitted"
        /\ cluster_file = MoodClusterer_save_model(clusterers[1])) =>
          /\ clusterers'[2].n_clusters = clusterers[1].n_clusters
          /\ clusterers'[2].feature_names = clusterers[1].feature_names
          /\ clusterers'[2].cluster_labels = clusterers[1].cluster_labels
          /\ clusterers'[2].kmeans = clusterers[1].kmeans
          /\ clusterers'[2].random_state = clusterers[1].random_state]_vars

==============================================================================
